---- MODULE Spec2Model ----
(***************************************************************************)
(* Memcache-backed BloomFilter (bloom/bloom.py), MemLock (bloom/memlock.py)*)
(* and RecentlyConsumed (bloom/consumed.py): the instances' local state,   *)
(* the value each keeps under its memcache key, and one action per store   *)
(* round trip of every public call.                                        *)
(***************************************************************************)
EXTENDS Integers, Sequences, FiniteSets, TLC

VARIABLES
    \* ---- BloomFilter ----
    mc_bloom,    \* memcache item under the filter's key: present, value (bytes), cas
    pc,          \* per instance: new | load | store | idle
    _bit_array,   \* per instance: self._bit_array, a sequence of bits
    _cas,        \* per instance: self._cas (NoCas models None)
    call,        \* per instance: the public call in progress
    outcome,     \* per instance: how the last public call ended
    ncalls,      \* public calls started so far
    seeded,      \* history: the values in the filter when the run starts
    added,       \* history, per instance: values whose insertion returned
    cleared,     \* history: some clear() has been called
    attempts,    \* history, per instance: cas commands issued / failed by the call
    pre_cas,     \* history, per instance: what the successful cas of the call replaced
    synced,      \* history, per instance: no other instance changed the value since the call returned
    cmds,        \* history, per instance: gets and set commands issued by the call
    fresh,       \* history, per instance: nobody wrote or removed the key since its last gets
    evictions,   \* history: deletions and evictions of the key by other clients
    \* ---- MemLock ----
    mc_lock,     \* memcache item under the lock's key: held, value (a token), expires
    now,         \* the wall clock, in half milliseconds
    lock_pc,     \* per instance: idle | acquire (in the blocking loop) | sleep
    lock_call,   \* per instance: the acquire in progress: timeout, and when its timer started
    lock_out,    \* history: the call that ended last: by whom, what it returned or raised
    lease_end,   \* history, per instance: when the lease it acquired and did not release ends
    with_scope,  \* per instance: out of | entering | in a with statement, and the lease taken on entry
    \* ---- RecentlyConsumed ----
    mc_consumed, \* memcache item under the queue's key: present, value (the JSON array)
    rc_pc,       \* per instance: new | ready
    _deque,      \* per instance: self._deque
    _set,        \* per instance: self._set
    _maxlen,     \* per instance: self._maxlen (NoMaxlen models None)
    rc_out,      \* history: the call that ended last: by whom, and what it raised
    last_writer, \* history: the instance whose set or delete reached the key last
    \* ---- every class ----
    key,         \* per class: the key argument of __init__ and self.key, shared by the class's instances
    sizing       \* a BloomFilter looked at for its sizes only: num_values, false_positives, _size, _num_hashes

bloom_vars == <<mc_bloom, pc, _bit_array, _cas, call, outcome, ncalls,
                seeded, added, cleared, attempts, pre_cas, synced,
                cmds, fresh, evictions>>

lock_vars == <<mc_lock, now, lock_pc, lock_call, lock_out, lease_end, with_scope>>

consumed_vars == <<mc_consumed, rc_pc, _deque, _set, _maxlen, rc_out, last_writer>>

aux_vars == <<key, sizing>>

vars == <<bloom_vars, lock_vars, consumed_vars, aux_vars>>

-----------------------------------------------------------------------------
(* Bounds of the model *)

\* public calls (constructions included) over all BloomFilter instances
MaxCalls == 4

\* the last second of the wall clock
MaxTime == 1

\* the longest deque a RecentlyConsumed call may start from
MaxDeque == 3

\* deletions and evictions of the BloomFilter key by other clients in a run
MaxEvictions == 1

\* the largest num_values the tested ones
MaxNumValues == 12

-----------------------------------------------------------------------------
(* Keys: self.key of every class, _random_key() and the test of __del__ *)

Classes == {"BloomFilter", "MemLock", "RecentlyConsumed"}

\* cls._RANDOM_KEY_PREFIX
_RANDOM_KEY_PREFIX(cls) ==
    CASE cls = "BloomFilter" -> "bloom:"
      [] cls = "MemLock" -> "tmp:memlock:"
      [] cls = "RecentlyConsumed" -> "tmp:consumed:"

\* a key is the sequence of the pieces of its text; key=None is the empty sequence
NoKey == <<>>

\* cls._random_key(): the prefix, then 16 random characters of [0-9a-z]
_random_key(cls) == <<_RANDOM_KEY_PREFIX(cls), "x7k2m9q4w1z8c3v6">>

\* the key arguments the model passes to __init__: none, a name, and a name that
\* begins with the prefix of the class
KeyChoices == {"None", "name", "prefixed name"}
KeyArg(cls, choice) ==
    CASE choice = "None" -> NoKey
      [] choice = "name" -> <<"dilberts">>
      [] choice = "prefixed name" -> <<_RANDOM_KEY_PREFIX(cls), "dilberts">>

\* __init__(key=arg): self.key = key or self._random_key(). The first instance
\* of the class is constructed with arg, the other one with the first one's key
KeyOf(cls, arg) == [arg |-> arg, key |-> IF arg = NoKey THEN _random_key(cls) ELSE arg]

\* text.startswith(prefix)
startswith(text, prefix) == text # <<>> /\ text[1] = prefix

\* mutant of KeyLooksRandom: the instance remembers that it generated its key
KeyWasGenerated(cls) == key[cls].arg = NoKey

\* self.key.startswith(self._RANDOM_KEY_PREFIX), the test of __del__
KeyLooksRandom(cls) == startswith(key[cls].key, _RANDOM_KEY_PREFIX(cls))

\* every class constructed with key='dilberts'
KeysGiven == [cls \in Classes |-> KeyOf(cls, KeyArg(cls, "name"))]

\* the classes of free constructed with any of the key arguments, the others
\* with key='dilberts'
KeysOf(free) ==
    {[cls \in Classes |-> KeyOf(cls, KeyArg(cls, IF cls \in free THEN choice[cls] ELSE "name"))] :
        choice \in [free -> KeyChoices]}

-----------------------------------------------------------------------------
(* BloomFilter: configuration and pure functions *)

BloomInst == {"A", "B"}
Values == {"rajiv", "raj", "dan"}

\* the arguments the model passes: iterables to __init__ and update, values to add
Iterables == {{}, {"raj", "dan"}}
AddValues == {"rajiv"}

\* self.num_values and self.false_positives (a rational) of every instance
num_values == 8
false_positives == <<1, 2>>

\* _retry_check_and_set(num_tries=3)
num_tries == 3

\* mutant of Retriable: the wrapper gives up one try early
RetriableOneTryLess(try_num) == try_num < num_tries - 2

\* _retry_check_and_set(): after a CheckAndSetError of try try_num (from 0) the
\* wrapper reloads and tries again; on the last try it raises
Retriable(try_num) == try_num < num_tries - 1

\* self._cas is None
NoCas == 0

\* math.log in units of 10^-6, for the arguments the model uses: 2, the
\* false_positives 1/2, 1/10 and 1/100, and the sixteenths __len__ takes it of
Micro == 1000000
LogMicro(x) ==
    CASE x = <<2, 1>> -> 693147
      [] x = <<1, 2>> -> -693147
      [] x = <<1, 10>> -> -2302585
      [] x = <<1, 100>> -> -4605170
      [] x[2] = 16 -> <<-2772589, -2079442, -1673976, -1386294, -1163151, -980829,
                        -826679, -693147, -575364, -470004, -374693, -287682,
                        -207639, -133531, -64539, 0>>[x[1]]

\* math.log(2)**2 in units of 10^-6
Log2SquaredMicro == 480453

\* int(math.ceil(a / b)) for a >= 0, b > 0
CeilDiv(a, b) == (a \div b) + (IF a % b = 0 THEN 0 ELSE 1)

\* what size() computes from self.num_values = n and self.false_positives = p:
\* ceil(-n ln p / (ln 2)^2), then rounded up to a multiple of 8
\* (the product n * -ln p is taken in two parts, to stay within 32 bits)
SizeFor(n, p) ==
    LET whole == (-LogMicro(p)) \div Log2SquaredMicro
        rest == (-LogMicro(p)) % Log2SquaredMicro
        raw == n * whole + CeilDiv(n * rest, Log2SquaredMicro)
    IN  raw + ((8 - (raw % 8)) % 8)

\* ceil((m / n) * ln 2) for the exact quotient of m by n (the product is taken
\* in two parts, to stay within 32 bits)
CeilOfExactQuotientLog2(n, m) ==
    LET floored == (m \div n) * LogMicro(<<2, 1>>)
        rest == (floored % Micro) * n + (m % n) * LogMicro(<<2, 1>>)
    IN  (floored \div Micro) + CeilDiv(rest, n * Micro)

\* mutant of NumHashesFor: the quotient of m by n is not truncated
NumHashesTrueDivision(n, m) == CeilOfExactQuotientLog2(n, m)

\* what num_hashes() computes from self.size() = m and self.num_values = n:
\* size() / num_values is the integer division of Python 2, then ceil(... * ln 2)
NumHashesFor(n, m) == CeilDiv((m \div n) * LogMicro(<<2, 1>>), Micro)

\* BloomFilter.size() of the instances of the model
size == SizeFor(num_values, false_positives)

\* BloomFilter.num_hashes() of the instances of the model
num_hashes == NumHashesFor(num_values, size)

\* mmh3.hash(json.dumps(value, sort_keys=True), seed=seed): MurmurHash3_x86_32, signed
mmh3_hash(value, seed) ==
    CASE value = "rajiv" ->
           <<-768575023, 1683896911, -249379491, -1433106958,
             331278886, -553776956, 2087259416>>[seed + 1]
      [] value = "raj" ->
           <<-1403092279, 317989931, 1565362040, 821015911,
             -1136864662, 261493162, 504645575>>[seed + 1]
      [] value = "dan" ->
           <<-997372739, -1792417066, 1401429850, -1044947750,
             -1425936485, -9598676, -907050350>>[seed + 1]

\* BloomFilter._bit_offsets(value), as the set update() and __contains__ make of it
BitOffsetsMod(value, m) == {mmh3_hash(value, seed) % m : seed \in 0..(num_hashes - 1)}
_bit_offsets(value) == BitOffsetsMod(value, size)

\* the union update() takes over itertools.chain(*iterables)
OffsetsOf(iterable) == UNION {_bit_offsets(value) : value \in iterable}

\* bitarray('0' * self.size())
ZeroBits == [o \in 1..size |-> 0]

\* mutant of SetBits: the bit at every offset is flipped
FlipBits(bits, offsets) ==
    [o \in 1..Len(bits) |-> IF (o - 1) \in offsets THEN 1 - bits[o] ELSE bits[o]]

\* self._bit_array[bit_offset] = 1 for every offset (offsets are 0-based)
SetBits(bits, offsets) ==
    [o \in 1..Len(bits) |-> IF (o - 1) \in offsets THEN 1 ELSE bits[o]]

\* the offsets that are no index of the array: assigning self._bit_array[bit_offset]
\* raises IndexError for them
OutOfRange(bits, offsets) == {o \in offsets : o >= Len(bits)}

\* the offsets the loop of update() may have assigned before it raised IndexError:
\* a set is iterated in no particular order
Reached(bits, offsets) == SUBSET (offsets \ OutOfRange(bits, offsets))

\* mutant of SetAllZero: the bits are left as they are
SetAllKept(bits) == bits

\* self._bit_array.setall(0)
SetAllZero(bits) == [o \in 1..Len(bits) |-> 0]

Pow2(e) == IF e = 0 THEN 1 ELSE IF e = 1 THEN 2 ELSE IF e = 2 THEN 4
           ELSE IF e = 3 THEN 8 ELSE IF e = 4 THEN 16 ELSE IF e = 5 THEN 32
           ELSE IF e = 6 THEN 64 ELSE 128

BitAt(bits, o) == IF o <= Len(bits) THEN bits[o] ELSE 0

\* mutant of tobytes: the bits of a byte packed least significant first
tobytes_lsb(bits) ==
    [j \in 1..((Len(bits) + 7) \div 8) |->
        BitAt(bits, 8 * j - 7) + BitAt(bits, 8 * j - 6) * 2 +
        BitAt(bits, 8 * j - 5) * 4 + BitAt(bits, 8 * j - 4) * 8 +
        BitAt(bits, 8 * j - 3) * 16 + BitAt(bits, 8 * j - 2) * 32 +
        BitAt(bits, 8 * j - 1) * 64 + BitAt(bits, 8 * j) * 128]

\* bitarray.tobytes(): byte j holds bits 8j..8j+7, most significant first,
\* the last byte padded with zero bits
ByteOf(bits, j) ==
    BitAt(bits, 8 * j + 1) * 128 + BitAt(bits, 8 * j + 2) * 64 +
    BitAt(bits, 8 * j + 3) * 32 + BitAt(bits, 8 * j + 4) * 16 +
    BitAt(bits, 8 * j + 5) * 8 + BitAt(bits, 8 * j + 6) * 4 +
    BitAt(bits, 8 * j + 7) * 2 + BitAt(bits, 8 * j + 8)
tobytes(bits) == [j \in 1..((Len(bits) + 7) \div 8) |-> ByteOf(bits, j - 1)]

\* mutant of frombytes: the bits of a byte unpacked least significant first
frombytes_lsb(bytes) ==
    [o \in 1..(8 * Len(bytes)) |->
        ((bytes[((o - 1) \div 8) + 1]) \div Pow2((o - 1) % 8)) % 2]

\* bitarray.frombytes() on an empty bitarray: 8 bits per byte, most significant first
frombytes(bytes) ==
    [o \in 1..(8 * Len(bytes)) |->
        ((bytes[((o - 1) \div 8) + 1]) \div Pow2(7 - ((o - 1) % 8))) % 2]

\* the offsets of the 1 bits of an array
OnesOf(bits) == {o - 1 : o \in {x \in 1..Len(bits) : bits[x] = 1}}

\* BloomFilter.__contains__(value) on instance i
Contains(i, value) == \A o \in _bit_offsets(value) : _bit_array[i][o + 1] = 1

\* BloomFilter.__len__() on instance i: floor(-m / k * ln(1 - X / m)) for X bits
\* set; math.log(0.0) raises ValueError when every bit is set
__len__(i) ==
    LET num_bits_set == Cardinality(OnesOf(_bit_array[i])) IN
    IF num_bits_set = size
    THEN "ValueError"
    ELSE (size * (-LogMicro(<<size - num_bits_set, size>>))) \div (num_hashes * Micro)

-----------------------------------------------------------------------------
(* BloomFilter: the store and the calls, one action per memcache command *)

NoItem == [present |-> FALSE, value |-> <<>>, cas |-> 0]

\* memcache set, and a cas whose token matched: the item gets a fresh unique id
Written(item, bytes) == [present |-> TRUE, value |-> bytes, cas |-> item.cas + 1]

\* mutant of cas_token: gets returns the id of the value the item replaced
cas_token_before(item) == item.cas - 1

\* the token memcache.gets(key) returns with the value: the item's unique id
cas_token(item) == item.cas

\* mutant of CasMatches: the token is not compared (a plain set)
CasIgnoresToken(item, token) == item.present

\* memcache.cas(key, bit_string, token) stores iff the item exists with that token
CasMatches(item, token) == item.present /\ item.cas = token

NoCall == [op |-> "none", arg |-> {}, try_num |-> 0, after |-> "done"]
NoAttempts == [issued |-> 0, failed |-> 0]
NoCmds == [gets |-> 0, sets |-> 0]
Stale == [j \in BloomInst |-> FALSE]

\* the call is clear(), made by the caller or by __del__
IsClear(c) == c.op \in {"clear", "__del__"}

\* mutant of Mutate: a retry stores the reloaded array without replaying update()
MutateNoReplay(c, bits) == IF IsClear(c) THEN SetAllZero(bits) ELSE bits

\* what itertools.chain(*iterables) yields when the function runs again with
\* the arguments of call c: an iterator that update() has traversed yields nothing
Replayed(c) == IF c.op = "update(iterator)" THEN {} ELSE c.arg

\* what the decorated function does to the array: update() sets bits, clear() resets
Mutate(c, bits) ==
    IF IsClear(c) THEN SetAllZero(bits) ELSE SetBits(bits, OffsetsOf(Replayed(c)))

\* where the instance is once call c has ended: a destroyed instance is gone
\* (what its clear() raised is ignored), an instance whose __init__ raised does
\* not exist
AfterCall(c, raised) ==
    IF c.op = "__del__" THEN "gone"
    ELSE IF raised /\ c.op = "init" THEN "new" ELSE "idle"

\* history kept when a write replaces the stored value
Desync(i, bytes) ==
    [j \in BloomInst |->
        IF j # i /\ (~mc_bloom.present \/ mc_bloom.value # bytes) THEN FALSE ELSE synced[j]]

\* BloomFilter.__init__: then _load_bit_array(), then update(iterable)
Construct(i, iterable) ==
    /\ pc[i] = "new"
    /\ ncalls < MaxCalls
    /\ pc' = [pc EXCEPT ![i] = "load"]
    /\ call' = [call EXCEPT ![i] =
                   [op |-> "init", arg |-> iterable, try_num |-> 0, after |-> "init"]]
    /\ outcome' = [outcome EXCEPT ![i] = "none"]
    /\ attempts' = [attempts EXCEPT ![i] = NoAttempts]
    /\ pre_cas' = [pre_cas EXCEPT ![i] = <<>>]
    /\ ncalls' = ncalls + 1
    /\ UNCHANGED <<mc_bloom, _bit_array, _cas, seeded, added, cleared, synced>>
    /\ cmds' = [cmds EXCEPT ![i] = NoCmds]
    /\ UNCHANGED <<fresh, evictions>>
    /\ UNCHANGED <<lock_vars, consumed_vars, aux_vars>>

\* BloomFilter.update(*iterables) up to its _store_bit_array(): try 0 of the
\* wrapper; op tells a one-shot iterator from an iterable that can be traversed again
UpdateWith(i, iterable, op) ==
    /\ pc[i] = "idle"
    /\ ncalls < MaxCalls
    /\ IF OutOfRange(_bit_array[i], OffsetsOf(iterable)) = {}
       THEN /\ _bit_array' = [_bit_array EXCEPT ![i] = SetBits(@, OffsetsOf(iterable))]
            /\ pc' = [pc EXCEPT ![i] = "store"]
            /\ outcome' = [outcome EXCEPT ![i] = "none"]
       ELSE \* IndexError leaves update() before its _store_bit_array()
            /\ \E reached \in Reached(_bit_array[i], OffsetsOf(iterable)) :
                  _bit_array' = [_bit_array EXCEPT ![i] = SetBits(@, reached)]
            /\ outcome' = [outcome EXCEPT ![i] = "IndexError"]
            /\ UNCHANGED pc
    /\ call' = [call EXCEPT ![i] =
                   [op |-> op, arg |-> iterable, try_num |-> 0, after |-> "done"]]
    /\ attempts' = [attempts EXCEPT ![i] = NoAttempts]
    /\ pre_cas' = [pre_cas EXCEPT ![i] = <<>>]
    /\ synced' = [synced EXCEPT ![i] = FALSE]
    /\ ncalls' = ncalls + 1
    /\ UNCHANGED <<mc_bloom, _cas, seeded, added, cleared>>
    /\ cmds' = [cmds EXCEPT ![i] = NoCmds]
    /\ UNCHANGED <<fresh, evictions>>
    /\ UNCHANGED <<lock_vars, consumed_vars, aux_vars>>

\* BloomFilter.update(iterable) with a set, a list or a tuple
Update(i, iterable) == UpdateWith(i, iterable, "update")

\* BloomFilter.update(iterator) with an iterator or a generator over the values
UpdateIterator(i, iterable) == UpdateWith(i, iterable, "update(iterator)")

\* BloomFilter.add(value): self.update({value})
Add(i, value) == Update(i, {value})

\* BloomFilter.clear() up to its _store_bit_array(): try 0 of the wrapper
Clear(i) ==
    /\ pc[i] = "idle"
    /\ ncalls < MaxCalls
    /\ _bit_array' = [_bit_array EXCEPT ![i] = SetAllZero(@)]
    /\ pc' = [pc EXCEPT ![i] = "store"]
    /\ call' = [call EXCEPT ![i] =
                   [op |-> "clear", arg |-> {}, try_num |-> 0, after |-> "done"]]
    /\ outcome' = [outcome EXCEPT ![i] = "none"]
    /\ attempts' = [attempts EXCEPT ![i] = NoAttempts]
    /\ pre_cas' = [pre_cas EXCEPT ![i] = <<>>]
    /\ synced' = [synced EXCEPT ![i] = FALSE]
    /\ cleared' = TRUE
    /\ added' = [j \in BloomInst |-> {}]
    /\ ncalls' = ncalls + 1
    /\ UNCHANGED <<mc_bloom, _cas, seeded>>
    /\ cmds' = [cmds EXCEPT ![i] = NoCmds]
    /\ UNCHANGED <<fresh, evictions>>
    /\ UNCHANGED <<lock_vars, consumed_vars, aux_vars>>

\* the elements of itertools.chain(*iterables)
chain(iterables) == UNION {iterables[n] : n \in 1..Len(iterables)}

\* BloomFilter.update(*iterables) with several iterables
UpdateChain(i, iterables) == Update(i, chain(iterables))

\* mutant of ContainsCall: the array is loaded from memcache before it is read
ContainsCallReloads(i, value) ==
    /\ pc[i] = "idle"
    /\ ncalls < MaxCalls
    /\ mc_bloom.present
    /\ _bit_array' = [_bit_array EXCEPT ![i] = frombytes(mc_bloom.value)]
    /\ _cas' = [_cas EXCEPT ![i] = mc_bloom.cas]
    /\ call' = [call EXCEPT ![i] =
                   [op |-> "__contains__", arg |-> {value}, try_num |-> 0, after |-> "done"]]
    /\ outcome' = [outcome EXCEPT ![i] =
                      IF \A o \in _bit_offsets(value) : frombytes(mc_bloom.value)[o + 1] = 1
                      THEN "True" ELSE "False"]
    /\ attempts' = [attempts EXCEPT ![i] = NoAttempts]
    /\ pre_cas' = [pre_cas EXCEPT ![i] = <<>>]
    /\ ncalls' = ncalls + 1
    /\ UNCHANGED <<mc_bloom, pc, seeded, added, cleared, synced>>
    /\ cmds' = [cmds EXCEPT ![i] = [gets |-> 1, sets |-> 0]]
    /\ fresh' = [fresh EXCEPT ![i] = TRUE]
    /\ UNCHANGED evictions
    /\ UNCHANGED <<lock_vars, consumed_vars, aux_vars>>

\* value in self: BloomFilter.__contains__(value), no memcache command
ContainsCall(i, value) ==
    /\ pc[i] = "idle"
    /\ ncalls < MaxCalls
    /\ call' = [call EXCEPT ![i] =
                   [op |-> "__contains__", arg |-> {value}, try_num |-> 0, after |-> "done"]]
    /\ outcome' = [outcome EXCEPT ![i] = IF Contains(i, value) THEN "True" ELSE "False"]
    /\ attempts' = [attempts EXCEPT ![i] = NoAttempts]
    /\ pre_cas' = [pre_cas EXCEPT ![i] = <<>>]
    /\ ncalls' = ncalls + 1
    /\ UNCHANGED <<mc_bloom, pc, _bit_array, _cas, seeded, added, cleared, synced>>
    /\ cmds' = [cmds EXCEPT ![i] = NoCmds]
    /\ UNCHANGED <<fresh, evictions>>
    /\ UNCHANGED <<lock_vars, consumed_vars, aux_vars>>

\* BloomFilter.__del__(): self.clear() when the key begins with 'bloom:' (up to
\* the _store_bit_array() of clear), nothing otherwise
BloomDel(i) ==
    /\ pc[i] = "idle"
    /\ call' = [call EXCEPT ![i] =
                   [op |-> "__del__", arg |-> {}, try_num |-> 0, after |-> "done"]]
    /\ attempts' = [attempts EXCEPT ![i] = NoAttempts]
    /\ pre_cas' = [pre_cas EXCEPT ![i] = <<>>]
    /\ IF KeyLooksRandom("BloomFilter")
       THEN /\ _bit_array' = [_bit_array EXCEPT ![i] = SetAllZero(@)]
            /\ pc' = [pc EXCEPT ![i] = "store"]
            /\ outcome' = [outcome EXCEPT ![i] = "none"]
            /\ synced' = [synced EXCEPT ![i] = FALSE]
            /\ cleared' = TRUE
            /\ added' = [j \in BloomInst |-> {}]
       ELSE /\ pc' = [pc EXCEPT ![i] = "gone"]
            /\ outcome' = [outcome EXCEPT ![i] = "ok"]
            /\ UNCHANGED <<_bit_array, synced, cleared, added>>
    /\ UNCHANGED <<mc_bloom, _cas, ncalls, seeded>>
    /\ cmds' = [cmds EXCEPT ![i] = NoCmds]
    /\ UNCHANGED <<fresh, evictions>>
    /\ UNCHANGED <<lock_vars, consumed_vars, aux_vars>>

\* BloomFilter._load_bit_array(): one gets, then back to whoever called it:
\* __init__ (which goes on to update), the wrapper's except clause (next try),
\* or _store_bit_array (whose caller then returns)
LoadBitArray(i) ==
    /\ pc[i] = "load"
    /\ IF ~mc_bloom.present
       THEN \* bit_string is None: a zeroed array, then _store_bit_array()
            /\ _bit_array' = [_bit_array EXCEPT ![i] = ZeroBits]
            /\ _cas' = [_cas EXCEPT ![i] = NoCas]
            /\ pc' = [pc EXCEPT ![i] = "store"]
            /\ UNCHANGED <<call, outcome, added, synced>>
       ELSE LET loaded == frombytes(mc_bloom.value) IN
            /\ _cas' = [_cas EXCEPT ![i] = cas_token(mc_bloom)]
            /\ IF call[i].after = "done"
               THEN /\ _bit_array' = [_bit_array EXCEPT ![i] = loaded]
                    /\ pc' = [pc EXCEPT ![i] = AfterCall(call[i], FALSE)]
                    /\ outcome' = [outcome EXCEPT ![i] = "ok"]
                    /\ added' = [added EXCEPT ![i] =
                                    IF cleared THEN {} ELSE @ \cup call[i].arg]
                    /\ synced' = [synced EXCEPT ![i] = TRUE]
                    /\ UNCHANGED call
               ELSE IF OutOfRange(loaded, OffsetsOf(Replayed(call[i]))) = {}
               THEN /\ _bit_array' = [_bit_array EXCEPT ![i] = Mutate(call[i], loaded)]
                    /\ pc' = [pc EXCEPT ![i] = "store"]
                    /\ call' = [call EXCEPT ![i] =
                                   [@ EXCEPT !.after = "done",
                                             !.try_num = IF call[i].after = "retry"
                                                         THEN @ + 1 ELSE 0]]
                    /\ UNCHANGED <<outcome, added, synced>>
               ELSE \* IndexError leaves update(), its wrapper and __init__
                    /\ \E reached \in Reached(loaded, OffsetsOf(Replayed(call[i]))) :
                          _bit_array' = [_bit_array EXCEPT ![i] = SetBits(loaded, reached)]
                    /\ pc' = [pc EXCEPT ![i] = AfterCall(call[i], TRUE)]
                    /\ outcome' = [outcome EXCEPT ![i] = "IndexError"]
                    /\ UNCHANGED <<call, added, synced>>
    /\ UNCHANGED <<mc_bloom, ncalls, seeded, cleared, attempts, pre_cas>>
    /\ cmds' = [cmds EXCEPT ![i].gets = @ + 1]
    /\ fresh' = [fresh EXCEPT ![i] = TRUE]
    /\ UNCHANGED evictions
    /\ UNCHANGED <<lock_vars, consumed_vars, aux_vars>>

\* BloomFilter._store_bit_array() up to its _load_bit_array(): one set or one cas;
\* a failed cas raises CheckAndSetError into the wrapper of _retry_check_and_set
StoreBitArray(i) ==
    /\ pc[i] = "store"
    /\ LET bit_string == tobytes(_bit_array[i]) IN
       IF _cas[i] = NoCas
       THEN /\ mc_bloom' = Written(mc_bloom, bit_string)
            /\ synced' = Desync(i, bit_string)
            /\ pc' = [pc EXCEPT ![i] = "load"]
            /\ cmds' = [cmds EXCEPT ![i].sets = @ + 1]
            /\ fresh' = Stale
            /\ UNCHANGED <<call, outcome, attempts, pre_cas>>
       ELSE IF CasMatches(mc_bloom, _cas[i])
       THEN /\ mc_bloom' = Written(mc_bloom, bit_string)
            /\ synced' = Desync(i, bit_string)
            /\ pc' = [pc EXCEPT ![i] = "load"]
            /\ attempts' = [attempts EXCEPT ![i].issued = @ + 1]
            /\ pre_cas' = [pre_cas EXCEPT ![i] = mc_bloom.value]
            /\ fresh' = Stale
            /\ UNCHANGED <<call, outcome, cmds>>
       ELSE /\ attempts' = [attempts EXCEPT ![i].issued = @ + 1, ![i].failed = @ + 1]
            /\ IF Retriable(call[i].try_num)
               THEN /\ pc' = [pc EXCEPT ![i] = "load"]
                    /\ call' = [call EXCEPT ![i].after = "retry"]
                    /\ UNCHANGED outcome
               ELSE /\ pc' = [pc EXCEPT ![i] = AfterCall(call[i], TRUE)]
                    /\ outcome' = [outcome EXCEPT ![i] = "CheckAndSetError"]
                    /\ UNCHANGED call
            /\ UNCHANGED <<mc_bloom, synced, pre_cas, cmds, fresh>>
    /\ UNCHANGED <<_bit_array, _cas, ncalls, seeded, added, cleared, evictions>>
    /\ UNCHANGED <<lock_vars, consumed_vars, aux_vars>>

\* memcache no longer has the key: another client deleted it, or memcache
\* evicted it; a later gets returns (None, None) and a later cas fails
Evict ==
    /\ mc_bloom.present
    /\ evictions < MaxEvictions
    /\ mc_bloom' = [present |-> FALSE, value |-> <<>>, cas |-> mc_bloom.cas]
    /\ synced' = Stale
    /\ fresh' = Stale
    /\ evictions' = evictions + 1
    /\ UNCHANGED <<pc, _bit_array, _cas, call, outcome, ncalls, seeded, added, cleared,
                   attempts, pre_cas, cmds>>
    /\ UNCHANGED <<lock_vars, consumed_vars, aux_vars>>

BloomNext ==
    \/ \E i \in BloomInst, iterable \in Iterables : Construct(i, iterable)
    \/ \E i \in BloomInst, iterable \in Iterables : Update(i, iterable)
    \/ \E i \in BloomInst, value \in AddValues : Add(i, value)
    \/ \E i \in BloomInst : Clear(i)
    \/ \E i \in BloomInst : LoadBitArray(i)
    \/ \E i \in BloomInst : StoreBitArray(i)

\* the iterables the model passes to update() when it passes several
IterableTuples == {<<{"rajiv"}, {"raj", "dan"}>>}

\* the calls above, update() of several iterables and membership tests
BloomQueryNext ==
    \/ \E i \in BloomInst, iterable \in Iterables : Construct(i, iterable)
    \/ \E i \in BloomInst, iterable \in Iterables : Update(i, iterable)
    \/ \E i \in BloomInst, value \in AddValues : Add(i, value)
    \/ \E i \in BloomInst : Clear(i)
    \/ \E i \in BloomInst : LoadBitArray(i)
    \/ \E i \in BloomInst : StoreBitArray(i)
    \/ \E i \in BloomInst, iterables \in IterableTuples : UpdateChain(i, iterables)
    \/ \E i \in BloomInst, value \in Values : ContainsCall(i, value)

\* construction, insertion and destruction
BloomLifeNext ==
    \/ \E i \in BloomInst, iterable \in Iterables : Construct(i, iterable)
    \/ \E i \in BloomInst, value \in AddValues : Add(i, value)
    \/ \E i \in BloomInst : BloomDel(i)
    \/ \E i \in BloomInst : LoadBitArray(i)
    \/ \E i \in BloomInst : StoreBitArray(i)

\* every instance has been constructed: no __init__ is pending or in progress
AllConstructed == \A j \in BloomInst : pc[j] # "new" /\ (call[j].op = "init" => pc[j] = "idle")

\* instance i has made no call since its construction
NoCallYet(i) == pc[i] = "idle" /\ call[i].op = "init"

\* instances that are constructed one after the other or together, and then
\* make one call each: an update(), an add() or a clear()
BloomDuelNext ==
    \/ \E i \in BloomInst, iterable \in Iterables : Construct(i, iterable)
    \/ \E i \in BloomInst, iterable \in Iterables :
          AllConstructed /\ NoCallYet(i) /\ Update(i, iterable)
    \/ \E i \in BloomInst, value \in AddValues :
          AllConstructed /\ NoCallYet(i) /\ Add(i, value)
    \/ \E i \in BloomInst : AllConstructed /\ NoCallYet(i) /\ Clear(i)
    \/ \E i \in BloomInst : LoadBitArray(i)
    \/ \E i \in BloomInst : StoreBitArray(i)

\* construction and insertion, also from iterators
BloomIterNext ==
    \/ \E i \in BloomInst, iterable \in Iterables : Construct(i, iterable)
    \/ \E i \in BloomInst, iterable \in Iterables : Update(i, iterable)
    \/ \E i \in BloomInst, iterable \in Iterables : UpdateIterator(i, iterable)
    \/ \E i \in BloomInst, value \in AddValues : Add(i, value)
    \/ \E i \in BloomInst : LoadBitArray(i)
    \/ \E i \in BloomInst : StoreBitArray(i)

\* construction and insertion
BloomForeignNext ==
    \/ \E i \in BloomInst, iterable \in Iterables : Construct(i, iterable)
    \/ \E i \in BloomInst, value \in AddValues : Add(i, value)
    \/ \E i \in BloomInst : LoadBitArray(i)
    \/ \E i \in BloomInst : StoreBitArray(i)

\* construction and insertion on a key that other clients delete
BloomEvictNext ==
    \/ \E i \in BloomInst : Construct(i, {})
    \/ \E i \in BloomInst : Add(i, "rajiv")
    \/ \E i \in BloomInst : LoadBitArray(i)
    \/ \E i \in BloomInst : StoreBitArray(i)
    \/ Evict

\* no instance exists yet and the key is not in memcache
BloomInit ==
    /\ mc_bloom = NoItem
    /\ pc = [i \in BloomInst |-> "new"]
    /\ _bit_array = [i \in BloomInst |-> <<>>]
    /\ _cas = [i \in BloomInst |-> NoCas]
    /\ call = [i \in BloomInst |-> NoCall]
    /\ outcome = [i \in BloomInst |-> "none"]
    /\ ncalls = 0
    /\ seeded = {}
    /\ added = [i \in BloomInst |-> {}]
    /\ cleared = FALSE
    /\ attempts = [i \in BloomInst |-> NoAttempts]
    /\ pre_cas = [i \in BloomInst |-> <<>>]
    /\ synced = [i \in BloomInst |-> FALSE]
    /\ cmds = [i \in BloomInst |-> NoCmds]
    /\ fresh = Stale
    /\ evictions = 0

\* num_values and false_positives of BloomFilters that other clients put under the key
ForeignConfigs == {<<1, <<1, 2>>>>, <<8, <<1, 10>>>>, <<num_values, false_positives>>}

\* the key holds the zeroed array an instance of some configuration wrote when it
\* was constructed
BloomInitForeign ==
    /\ \E c \in ForeignConfigs :
          mc_bloom = Written(NoItem, tobytes([o \in 1..SizeFor(c[1], c[2]) |-> 0]))
    /\ seeded = {}
    /\ pc = [i \in BloomInst |-> "new"]
    /\ _bit_array = [i \in BloomInst |-> <<>>]
    /\ _cas = [i \in BloomInst |-> NoCas]
    /\ call = [i \in BloomInst |-> NoCall]
    /\ outcome = [i \in BloomInst |-> "none"]
    /\ ncalls = 0
    /\ added = [i \in BloomInst |-> {}]
    /\ cleared = FALSE
    /\ attempts = [i \in BloomInst |-> NoAttempts]
    /\ pre_cas = [i \in BloomInst |-> <<>>]
    /\ synced = [i \in BloomInst |-> FALSE]
    /\ cmds = [i \in BloomInst |-> NoCmds]
    /\ fresh = Stale
    /\ evictions = 0

\* the key holds a filter written earlier (by instances that are gone)
BloomInitExisting ==
    /\ \E s \in {{}, {"dan"}} :
          /\ mc_bloom = Written(NoItem, tobytes(SetBits(ZeroBits, OffsetsOf(s))))
          /\ seeded = s
    /\ pc = [i \in BloomInst |-> "new"]
    /\ _bit_array = [i \in BloomInst |-> <<>>]
    /\ _cas = [i \in BloomInst |-> NoCas]
    /\ call = [i \in BloomInst |-> NoCall]
    /\ outcome = [i \in BloomInst |-> "none"]
    /\ ncalls = 0
    /\ added = [i \in BloomInst |-> {}]
    /\ cleared = FALSE
    /\ attempts = [i \in BloomInst |-> NoAttempts]
    /\ pre_cas = [i \in BloomInst |-> <<>>]
    /\ synced = [i \in BloomInst |-> FALSE]
    /\ cmds = [i \in BloomInst |-> NoCmds]
    /\ fresh = Stale
    /\ evictions = 0

-----------------------------------------------------------------------------
(* BloomFilter: size() and num_hashes() of one instance, for any configuration *)

\* the instance has no attribute _size, or no attribute _num_hashes
NoAttr == 0

\* the configurations: num_values from 1 to MaxNumValues and the tested 100 and
\* 1000, false_positives 1/2 and the tested 1/10 and 1/100
NumValues == (1..MaxNumValues) \cup {100, 1000}
FalsePositives == {<<1, 2>>, <<1, 10>>, <<1, 100>>}

\* the instance of the specifications that do not look at sizes
NoSizing == [num_values |-> num_values, false_positives |-> false_positives,
             _size |-> NoAttr, _num_hashes |-> NoAttr]

\* BloomFilter.size(): self._size, computed on the first call
Size ==
    /\ sizing._size = NoAttr
    /\ sizing' = [sizing EXCEPT !._size = SizeFor(sizing.num_values, sizing.false_positives)]
    /\ UNCHANGED <<bloom_vars, lock_vars, consumed_vars, key>>

\* BloomFilter.num_hashes(): self._num_hashes, computed on the first call from
\* self.size() (which computes self._size if nobody called size() before)
NumHashes ==
    /\ sizing._num_hashes = NoAttr
    /\ LET m == IF sizing._size = NoAttr
                THEN SizeFor(sizing.num_values, sizing.false_positives)
                ELSE sizing._size
       IN  sizing' = [sizing EXCEPT !._size = m,
                                    !._num_hashes = NumHashesFor(sizing.num_values, m)]
    /\ UNCHANGED <<bloom_vars, lock_vars, consumed_vars, key>>

SizingNext == Size \/ NumHashes

\* an instance of any configuration, before size() or num_hashes() was called
SizingInit ==
    \E n \in NumValues, p \in FalsePositives :
        sizing = [num_values |-> n, false_positives |-> p,
                  _size |-> NoAttr, _num_hashes |-> NoAttr]

-----------------------------------------------------------------------------
(* MemLock *)

LockInst == {"A", "B"}

\* the timeout arguments the model passes to acquire()
Timeouts == {-1, 0, 1}

\* MemLock._AUTO_RELEASE_TIME, the default auto_release_time, in seconds
_AUTO_RELEASE_TIME == 1

\* the unit of the clock is half a millisecond, so that the rounding of
\* ContextTimer.elapsed() to the nearest millisecond shows
HalfMs == 2000

\* the instants at which the model looks at the clock: every full second and
\* half a millisecond before it
Instants == {t \in 0..(MaxTime * HalfMs) : t % HalfMs \in {0, HalfMs - 1}}

\* memcache's expire=self.auto_release_time: when a value stored now expires
ExpiresAt == now + _AUTO_RELEASE_TIME * HalfMs

\* the instance is not in a with statement
NoScope == [at |-> "out", lease_end |-> 0]

\* __enter__ returned now: the instance is in the body, with the lease of the
\* acquire() of the entry
Entered == [at |-> "in", lease_end |-> ExpiresAt]

\* self._value: a random key, unique to the instance
_value(i) == <<"tmp:memlock:", i>>

NoLock == [held |-> FALSE, value |-> <<>>, expires |-> 0]
NoAcquire == [timeout |-> -1, _started |-> 0]
NoLockOut == [by |-> "none", op |-> "none", res |-> "none", removed |-> <<>>, stale |-> FALSE,
              timeout |-> -1, waited |-> 0]

\* a call of instance i ended: what it was and what it returned or raised
LockOut(i, op, res) == [by |-> i, op |-> op, res |-> res, removed |-> <<>>, stale |-> FALSE,
                        timeout |-> -1, waited |-> 0]

\* a blocking acquire of instance i ended: what it returned, its timeout and the
\* time since it began
BlockingOut(i, res) ==
    [LockOut(i, "acquire", res) EXCEPT !.timeout = lock_call[i].timeout,
                                       !.waited = now - lock_call[i]._started]

\* mutant of LockPresent: a stored value never expires
LockPresentForever == mc_lock.held

\* memcache has a value under the key: it was stored and its expiry time is not reached
LockPresent == mc_lock.held /\ now < mc_lock.expires

\* mutant of MemcacheAdd: the value is stored with a lease one second too long
MemcacheAddLongLease(i) ==
    IF LockPresent
    THEN mc_lock
    ELSE [held |-> TRUE, value |-> _value(i), expires |-> ExpiresAt + HalfMs]

\* mutant of MemcacheAdd: the value is stored whether the key has one or not
MemcacheAddOverwrites(i) == [held |-> TRUE, value |-> _value(i), expires |-> ExpiresAt]

\* MemLock._memcache_add(): add(key, self._value, expire=auto_release_time) stores
\* iff the key has no value
MemcacheAdd(i) ==
    IF LockPresent
    THEN mc_lock
    ELSE [held |-> TRUE, value |-> _value(i), expires |-> ExpiresAt]

\* mutant of elapsed: the milliseconds are cut, not rounded
elapsed_floor(i) == (now - lock_call[i]._started) \div 2

\* timer.elapsed(): round(value * 1000), the milliseconds since the ContextTimer
\* of the call started, rounded to the nearest (a half rounds up)
elapsed(i) == ((now - lock_call[i]._started) + 1) \div 2

\* mutant of AcquireNonBlocking: the lock is reentrant, the holder's acquire
\* returns true and renews its lease
AcquireReentrant(i) ==
    /\ lock_pc[i] = "idle"
    /\ IF ~LockPresent \/ mc_lock.value = _value(i)
       THEN /\ mc_lock' = [held |-> TRUE, value |-> _value(i), expires |-> ExpiresAt]
            /\ lock_out' = LockOut(i, "acquire", "True")
            /\ lease_end' = [lease_end EXCEPT ![i] = ExpiresAt]
       ELSE /\ lock_out' = LockOut(i, "acquire", "False")
            /\ UNCHANGED <<mc_lock, lease_end>>
    /\ UNCHANGED <<now, lock_pc, lock_call>>
    /\ UNCHANGED <<with_scope, bloom_vars, consumed_vars, aux_vars>>

\* MemLock.acquire(blocking=False): one add, its result returned
AcquireNonBlocking(i) ==
    /\ lock_pc[i] = "idle"
    /\ mc_lock' = MemcacheAdd(i)
    /\ IF ~LockPresent
       THEN /\ lock_out' = LockOut(i, "acquire", "True")
            /\ lease_end' = [lease_end EXCEPT ![i] = ExpiresAt]
       ELSE /\ lock_out' = LockOut(i, "acquire", "False")
            /\ UNCHANGED lease_end
    /\ UNCHANGED <<now, lock_pc, lock_call>>
    /\ UNCHANGED <<with_scope, bloom_vars, consumed_vars, aux_vars>>

\* mutant of AcquireNonBlockingTimeout: the add is issued before the arguments
\* are rejected
AcquireNonBlockingTimeoutAdds(i, t) ==
    /\ lock_pc[i] = "idle"
    /\ t # -1
    /\ mc_lock' = MemcacheAdd(i)
    /\ lock_out' = LockOut(i, "acquire", "ValueError")
    /\ UNCHANGED <<now, lock_pc, lock_call, lease_end>>
    /\ UNCHANGED <<with_scope, bloom_vars, consumed_vars, aux_vars>>

\* MemLock.acquire(blocking=False, timeout=t), t # -1: ValueError
AcquireNonBlockingTimeout(i, t) ==
    /\ lock_pc[i] = "idle"
    /\ t # -1
    /\ lock_out' = LockOut(i, "acquire", "ValueError")
    /\ UNCHANGED <<mc_lock, now, lock_pc, lock_call, lease_end>>
    /\ UNCHANGED <<with_scope, bloom_vars, consumed_vars, aux_vars>>

\* MemLock.acquire(blocking=True, timeout=t): the ContextTimer starts
AcquireBlocking(i, t) ==
    /\ lock_pc[i] = "idle"
    /\ lock_pc' = [lock_pc EXCEPT ![i] = "acquire"]
    /\ lock_call' = [lock_call EXCEPT ![i] = [timeout |-> t, _started |-> now]]
    /\ UNCHANGED <<mc_lock, now, lock_out, lease_end>>
    /\ UNCHANGED <<with_scope, bloom_vars, consumed_vars, aux_vars>>

\* one turn of the while loop of acquire(): the timeout test, then one add
AcquireTry(i) ==
    /\ lock_pc[i] = "acquire"
    /\ IF lock_call[i].timeout = -1 \/ elapsed(i) < lock_call[i].timeout * 1000
       THEN /\ mc_lock' = MemcacheAdd(i)
            /\ IF ~LockPresent
               THEN /\ lock_pc' = [lock_pc EXCEPT ![i] = "idle"]
                    /\ lock_call' = [lock_call EXCEPT ![i] = NoAcquire]
                    /\ lock_out' = BlockingOut(i, "True")
                    /\ lease_end' = [lease_end EXCEPT ![i] = ExpiresAt]
                    /\ with_scope' = IF with_scope[i].at = "entering"
                                     THEN [with_scope EXCEPT ![i] = Entered]
                                     ELSE with_scope
               ELSE /\ lock_pc' = [lock_pc EXCEPT ![i] = "sleep"]
                    /\ UNCHANGED <<lock_call, lock_out, lease_end, with_scope>>
       ELSE /\ lock_pc' = [lock_pc EXCEPT ![i] = "idle"]
            /\ lock_call' = [lock_call EXCEPT ![i] = NoAcquire]
            /\ lock_out' = BlockingOut(i, "False")
            /\ UNCHANGED <<mc_lock, lease_end, with_scope>>
    /\ UNCHANGED now
    /\ UNCHANGED <<bloom_vars, consumed_vars, aux_vars>>

\* time.sleep(random.uniform(0, self._RETRY_DELAY)) returns
AcquireWake(i) ==
    /\ lock_pc[i] = "sleep"
    /\ lock_pc' = [lock_pc EXCEPT ![i] = "acquire"]
    /\ UNCHANGED <<mc_lock, now, lock_call, lock_out, lease_end>>
    /\ UNCHANGED <<with_scope, bloom_vars, consumed_vars, aux_vars>>

\* MemLock.locked(): bool(memcache.get(key))
Locked(i) ==
    /\ lock_pc[i] = "idle"
    /\ lock_out' = LockOut(i, "locked", IF LockPresent THEN "True" ELSE "False")
    /\ UNCHANGED <<mc_lock, now, lock_pc, lock_call, lease_end>>
    /\ UNCHANGED <<with_scope, bloom_vars, consumed_vars, aux_vars>>

\* history of a release by instance i: the token it deleted, and whether i's own
\* lease (of an acquire it had not released yet) had run out by then
Released(i, res, token) ==
    [by |-> i, op |-> "release", res |-> res, removed |-> token,
     stale |-> lease_end[i] # 0 /\ lease_end[i] <= now, timeout |-> -1, waited |-> 0]

\* mutant of Release: nothing is raised when the delete found no value
ReleaseNeverRaises(i) ==
    /\ lock_pc[i] = "idle"
    /\ mc_lock' = IF LockPresent THEN NoLock ELSE mc_lock
    /\ lock_out' = Released(i, "None", IF LockPresent THEN mc_lock.value ELSE <<>>)
    /\ lease_end' = [lease_end EXCEPT ![i] = 0]
    /\ UNCHANGED <<now, lock_pc, lock_call>>
    /\ UNCHANGED <<with_scope, bloom_vars, consumed_vars, aux_vars>>

\* mutant of Release: the value is deleted only when it is the instance's own token
ReleaseOwnTokenOnly(i) ==
    /\ lock_pc[i] = "idle"
    /\ LET mine == LockPresent /\ mc_lock.value = _value(i) IN
       /\ mc_lock' = IF mine THEN NoLock ELSE mc_lock
       /\ lock_out' = Released(i, IF mine THEN "None" ELSE "ReleaseUnlockedLock",
                               IF mine THEN mc_lock.value ELSE <<>>)
    /\ lease_end' = [lease_end EXCEPT ![i] = 0]
    /\ UNCHANGED <<now, lock_pc, lock_call>>
    /\ UNCHANGED <<with_scope, bloom_vars, consumed_vars, aux_vars>>

\* MemLock.release(): delete(key, noreply=False); ReleaseUnlockedLock when the
\* delete found no value
Release(i) ==
    /\ lock_pc[i] = "idle"
    /\ mc_lock' = IF LockPresent THEN NoLock ELSE mc_lock
    /\ lock_out' = Released(i, IF LockPresent THEN "None" ELSE "ReleaseUnlockedLock",
                            IF LockPresent THEN mc_lock.value ELSE <<>>)
    /\ lease_end' = [lease_end EXCEPT ![i] = 0]
    /\ UNCHANGED <<now, lock_pc, lock_call>>
    /\ UNCHANGED <<with_scope, bloom_vars, consumed_vars, aux_vars>>

\* MemLock.__enter__(): self.acquire(), blocking and without timeout, begins
WithEnter(i) ==
    /\ lock_pc[i] = "idle"
    /\ with_scope[i].at = "out"
    /\ lock_pc' = [lock_pc EXCEPT ![i] = "acquire"]
    /\ lock_call' = [lock_call EXCEPT ![i] = [timeout |-> -1, _started |-> now]]
    /\ with_scope' = [with_scope EXCEPT ![i].at = "entering"]
    /\ UNCHANGED <<mc_lock, now, lock_out, lease_end>>
    /\ UNCHANGED <<bloom_vars, consumed_vars, aux_vars>>

\* mutant of WithExit: the lock is released only if it is still locked, and
\* nothing is raised
WithExitQuiet(i) ==
    /\ lock_pc[i] = "idle"
    /\ with_scope[i].at = "in"
    /\ mc_lock' = IF LockPresent THEN NoLock ELSE mc_lock
    /\ lock_out' = [Released(i, "None", IF LockPresent THEN mc_lock.value ELSE <<>>)
                        EXCEPT !.op = "exit"]
    /\ lease_end' = [lease_end EXCEPT ![i] = 0]
    /\ with_scope' = [with_scope EXCEPT ![i] = NoScope]
    /\ UNCHANGED <<now, lock_pc, lock_call>>
    /\ UNCHANGED <<bloom_vars, consumed_vars, aux_vars>>

\* MemLock.__exit__(): self.release(), whatever happened in the body
WithExit(i) ==
    /\ lock_pc[i] = "idle"
    /\ with_scope[i].at = "in"
    /\ mc_lock' = IF LockPresent THEN NoLock ELSE mc_lock
    /\ lock_out' = [Released(i, IF LockPresent THEN "None" ELSE "ReleaseUnlockedLock",
                                IF LockPresent THEN mc_lock.value ELSE <<>>)
                        EXCEPT !.op = "exit"]
    /\ lease_end' = [lease_end EXCEPT ![i] = 0]
    /\ with_scope' = [with_scope EXCEPT ![i] = NoScope]
    /\ UNCHANGED <<now, lock_pc, lock_call>>
    /\ UNCHANGED <<bloom_vars, consumed_vars, aux_vars>>

\* Base.__del__() of a MemLock that is in no call and no with statement:
\* memcache.delete(self.key) when the key begins with 'tmp:memlock:'
MemLockDel(i) ==
    /\ lock_pc[i] = "idle"
    /\ with_scope[i].at = "out"
    /\ lock_pc' = [lock_pc EXCEPT ![i] = "gone"]
    /\ LET deletes == KeyLooksRandom("MemLock") /\ LockPresent IN
       /\ mc_lock' = IF deletes THEN NoLock ELSE mc_lock
       /\ lock_out' = [LockOut(i, "__del__", "None")
                           EXCEPT !.removed = IF deletes THEN mc_lock.value ELSE <<>>]
    /\ UNCHANGED <<now, lock_call, lease_end, with_scope>>
    /\ UNCHANGED <<bloom_vars, consumed_vars, aux_vars>>

\* time passes on the wall clock, up to a later instant
Tick ==
    /\ \E t \in Instants : t > now /\ now' = t
    /\ UNCHANGED <<mc_lock, lock_pc, lock_call, lock_out, lease_end>>
    /\ UNCHANGED <<with_scope, bloom_vars, consumed_vars, aux_vars>>

LockNext ==
    \/ \E i \in LockInst : AcquireNonBlocking(i)
    \/ \E i \in LockInst, t \in Timeouts : AcquireNonBlockingTimeout(i, t)
    \/ \E i \in LockInst, t \in Timeouts : AcquireBlocking(i, t)
    \/ \E i \in LockInst : AcquireTry(i)
    \/ \E i \in LockInst : AcquireWake(i)
    \/ \E i \in LockInst : Locked(i)
    \/ \E i \in LockInst : Release(i)
    \/ Tick

\* acquire(), acquire(timeout=...), acquire(blocking=False), release() and
\* destruction
LockLifeNext ==
    \/ \E i \in LockInst : AcquireNonBlocking(i)
    \/ \E i \in LockInst, t \in Timeouts : AcquireBlocking(i, t)
    \/ \E i \in LockInst : AcquireTry(i)
    \/ \E i \in LockInst : AcquireWake(i)
    \/ \E i \in LockInst : Release(i)
    \/ \E i \in LockInst : MemLockDel(i)
    \/ Tick

\* with statements, and the calls their bodies and other callers make
LockScopeNext ==
    \/ \E i \in LockInst : WithEnter(i)
    \/ \E i \in LockInst : AcquireTry(i)
    \/ \E i \in LockInst : AcquireWake(i)
    \/ \E i \in LockInst : AcquireNonBlocking(i)
    \/ \E i \in LockInst : Locked(i)
    \/ \E i \in LockInst : Release(i)
    \/ \E i \in LockInst : WithExit(i)
    \/ Tick

\* acquire() without timeout, acquire(blocking=False) and release() only
LockWaitNext ==
    \/ \E i \in LockInst : AcquireNonBlocking(i)
    \/ \E i \in LockInst : AcquireBlocking(i, -1)
    \/ \E i \in LockInst : AcquireTry(i)
    \/ \E i \in LockInst : AcquireWake(i)
    \/ \E i \in LockInst : Release(i)
    \/ Tick

\* the clock goes on (as far as the model follows it), a sleep ends, and the
\* loop of acquire() takes its next turn
LockFairness ==
    /\ WF_vars(Tick)
    /\ \A i \in LockInst : WF_vars(AcquireTry(i)) /\ WF_vars(AcquireWake(i))

\* the instances exist, nobody holds the lock
LockInit ==
    /\ mc_lock = NoLock
    /\ now = 0
    /\ lock_pc = [i \in LockInst |-> "idle"]
    /\ lock_call = [i \in LockInst |-> NoAcquire]
    /\ lock_out = NoLockOut
    /\ lease_end = [i \in LockInst |-> 0]
    /\ with_scope = [i \in LockInst |-> NoScope]

-----------------------------------------------------------------------------
(* RecentlyConsumed *)

RcInst == {"q1", "q2"}

\* the values the model passes to append() and extend(): text and integers
RcValues == {<<"str", "a">>, <<"str", "1">>, <<"int", 1>>}

\* self._maxlen is None
NoMaxlen == -1

\* the maxlen arguments the model passes to __init__
Maxlens == {NoMaxlen, 0, 1, 2}

\* the iterables the model passes to extend(): empty, a value twice, two values,
\* a text and the integer it spells
RcIterables == {<<>>,
                <<<<"str", "a">>, <<"str", "a">>>>,
                <<<<"str", "a">>, <<"int", 1>>>>,
                <<<<"str", "1">>, <<"int", 1>>>>}

\* unicode(value)
unicode(value) == IF value[1] = "int" THEN ToString(value[2]) ELSE value[2]

\* json.dumps(list_) of a list of unicode strings: a JSON array of JSON strings
json_dumps(list_) == [k \in 1..Len(list_) |-> <<"string", list_[k]>>]

\* json.loads(string): the list of the array's elements
json_loads(string) == [k \in 1..Len(string) |-> string[k][2]]

NoArray == [present |-> FALSE, value |-> <<>>]
NoRcOut == [by |-> "none", op |-> "none", res |-> "none"]

\* memcache.get(self.key, default='[]')
MemcacheGetArray == IF mc_consumed.present THEN mc_consumed.value ELSE json_dumps(<<>>)

\* set(list_)
SetOf(list_) == {list_[k] : k \in 1..Len(list_)}

\* RecentlyConsumed.__len__()
len(set_) == Cardinality(set_)

\* RecentlyConsumed._prune_to_maxlen() on (self._deque, self._set): what is left of
\* both, and the exception of popleft() or remove() that ended it, if any
RECURSIVE _prune_to_maxlen(_, _, _)
_prune_to_maxlen(deque, set_, maxlen) ==
    IF maxlen # NoMaxlen /\ len(set_) > maxlen
    THEN IF deque = <<>>
         THEN [deque |-> deque, set_ |-> set_, raised |-> "IndexError"]
         ELSE IF Head(deque) \notin set_
         THEN [deque |-> Tail(deque), set_ |-> set_, raised |-> "KeyError"]
         ELSE _prune_to_maxlen(Tail(deque), set_ \ {Head(deque)}, maxlen)
    ELSE [deque |-> deque, set_ |-> set_, raised |-> "None"]

\* RecentlyConsumed._store_to_memcache(): set of the JSON array, or delete when
\* self._set is empty
_store_to_memcache(deque, set_) ==
    IF set_ # {}
    THEN [present |-> TRUE, value |-> json_dumps(deque)]
    ELSE NoArray

\* the tuple extend() builds: unicode(value) for value in values if value not in self
NotConsumed(values, set_) ==
    LET keep == SelectSeq(values, LAMBDA value : unicode(value) \notin set_)
    IN  [k \in 1..Len(keep) |-> unicode(keep[k])]

\* what append() and extend() do once they have values to add:
\* extend the deque and the set, prune, store
Consume(i, op, values) ==
    LET pruned == _prune_to_maxlen(_deque[i] \o values, _set[i] \cup SetOf(values), _maxlen[i])
    IN  /\ _deque' = [_deque EXCEPT ![i] = pruned.deque]
        /\ _set' = [_set EXCEPT ![i] = pruned.set_]
        /\ rc_out' = [by |-> i, op |-> op, res |-> pruned.raised]
        /\ IF pruned.raised = "None"
           THEN /\ mc_consumed' = _store_to_memcache(pruned.deque, pruned.set_)
                /\ last_writer' = i
           ELSE UNCHANGED <<mc_consumed, last_writer>>

\* mutant of RcConstruct: an array beyond maxlen is cut to its last maxlen
\* elements and stored back, and nothing is raised
RcConstructTruncates(i, maxlen) ==
    /\ rc_pc[i] = "new"
    /\ LET list_ == json_loads(MemcacheGetArray)
           over == maxlen # NoMaxlen /\ Len(list_) > maxlen
           kept == IF over THEN SubSeq(list_, Len(list_) - maxlen + 1, Len(list_)) ELSE list_
       IN  /\ rc_out' = [by |-> i, op |-> "init", res |-> "None"]
           /\ rc_pc' = [rc_pc EXCEPT ![i] = "ready"]
           /\ _deque' = [_deque EXCEPT ![i] = kept]
           /\ _set' = [_set EXCEPT ![i] = SetOf(kept)]
           /\ _maxlen' = [_maxlen EXCEPT ![i] = maxlen]
           /\ mc_consumed' = IF over THEN _store_to_memcache(kept, SetOf(kept)) ELSE mc_consumed
           /\ last_writer' = IF over THEN i ELSE last_writer
    /\ UNCHANGED <<bloom_vars, lock_vars, aux_vars>>

\* RecentlyConsumed.__init__(key=..., maxlen=maxlen): _load_from_memcache()
RcConstruct(i, maxlen) ==
    /\ rc_pc[i] = "new"
    /\ LET list_ == json_loads(MemcacheGetArray) IN
       IF maxlen # NoMaxlen /\ Len(list_) > maxlen
       THEN /\ rc_out' = [by |-> i, op |-> "init", res |-> "IndexError"]
            /\ UNCHANGED <<rc_pc, _deque, _set, _maxlen>>
       ELSE /\ rc_out' = [by |-> i, op |-> "init", res |-> "None"]
            /\ rc_pc' = [rc_pc EXCEPT ![i] = "ready"]
            /\ _deque' = [_deque EXCEPT ![i] = list_]
            /\ _set' = [_set EXCEPT ![i] = SetOf(list_)]
            /\ _maxlen' = [_maxlen EXCEPT ![i] = maxlen]
    /\ UNCHANGED <<mc_consumed, last_writer>>
    /\ UNCHANGED <<bloom_vars, lock_vars, aux_vars>>

\* mutant of RcAppend: the membership test is missing, the value is appended
\* and the queue stored again
RcAppendAgain(i, value) ==
    /\ rc_pc[i] = "ready"
    /\ Len(_deque[i]) < MaxDeque
    /\ Consume(i, "append", <<unicode(value)>>)
    /\ UNCHANGED <<rc_pc, _maxlen>>
    /\ UNCHANGED <<bloom_vars, lock_vars, aux_vars>>

\* RecentlyConsumed.append(value)
RcAppend(i, value) ==
    /\ rc_pc[i] = "ready"
    /\ Len(_deque[i]) < MaxDeque
    /\ IF unicode(value) \notin _set[i]
       THEN Consume(i, "append", <<unicode(value)>>)
       ELSE /\ rc_out' = [by |-> i, op |-> "append", res |-> "None"]
            /\ UNCHANGED <<mc_consumed, _deque, _set, last_writer>>
    /\ UNCHANGED <<rc_pc, _maxlen>>
    /\ UNCHANGED <<bloom_vars, lock_vars, aux_vars>>

\* RecentlyConsumed.extend(values)
RcExtend(i, values) ==
    /\ rc_pc[i] = "ready"
    /\ Len(_deque[i]) + Len(values) <= MaxDeque
    /\ LET new == NotConsumed(values, _set[i]) IN
       IF new # <<>>
       THEN Consume(i, "extend", new)
       ELSE /\ rc_out' = [by |-> i, op |-> "extend", res |-> "None"]
            /\ UNCHANGED <<mc_consumed, _deque, _set, last_writer>>
    /\ UNCHANGED <<rc_pc, _maxlen>>
    /\ UNCHANGED <<bloom_vars, lock_vars, aux_vars>>

\* RecentlyConsumed.clear()
RcClear(i) ==
    /\ rc_pc[i] = "ready"
    /\ _deque' = [_deque EXCEPT ![i] = <<>>]
    /\ _set' = [_set EXCEPT ![i] = {}]
    /\ mc_consumed' = _store_to_memcache(<<>>, {})
    /\ last_writer' = i
    /\ rc_out' = [by |-> i, op |-> "clear", res |-> "None"]
    /\ UNCHANGED <<rc_pc, _maxlen>>
    /\ UNCHANGED <<bloom_vars, lock_vars, aux_vars>>

\* Base.__del__() of a RecentlyConsumed: memcache.delete(self.key) when the key
\* begins with 'tmp:consumed:'
RcDel(i) ==
    /\ rc_pc[i] = "ready"
    /\ rc_pc' = [rc_pc EXCEPT ![i] = "gone"]
    /\ rc_out' = [by |-> i, op |-> "__del__", res |-> "None"]
    /\ IF KeyLooksRandom("RecentlyConsumed")
       THEN mc_consumed' = NoArray /\ last_writer' = i
       ELSE UNCHANGED <<mc_consumed, last_writer>>
    /\ UNCHANGED <<_deque, _set, _maxlen>>
    /\ UNCHANGED <<bloom_vars, lock_vars, aux_vars>>

ConsumedNext ==
    \/ \E i \in RcInst, maxlen \in Maxlens : RcConstruct(i, maxlen)
    \/ \E i \in RcInst, value \in RcValues : RcAppend(i, value)
    \/ \E i \in RcInst, values \in RcIterables : RcExtend(i, values)
    \/ \E i \in RcInst : RcClear(i)

\* no instance exists yet and the key is not in memcache
ConsumedInit ==
    /\ mc_consumed = NoArray
    /\ rc_pc = [i \in RcInst |-> "new"]
    /\ _deque = [i \in RcInst |-> <<>>]
    /\ _set = [i \in RcInst |-> {}]
    /\ _maxlen = [i \in RcInst |-> NoMaxlen]
    /\ rc_out = NoRcOut
    /\ last_writer = "none"

-----------------------------------------------------------------------------
(* RecentlyConsumed used under a MemLock, as its docstring asks *)

\* each process has one MemLock and one RecentlyConsumed: the queue of the
\* process whose lock is l
QueueOf(l) == IF l = "A" THEN "q1" ELSE "q2"

\* the process is in the body of `with lock:` and the lease of the entry lasts
InSection(l) == with_scope[l].at = "in" /\ now < with_scope[l].lease_end

\* queue.append(value) in the body of the with statement
SectionAppend(l, value) == InSection(l) /\ RcAppend(QueueOf(l), value)

\* queue.extend(values) in the body of the with statement
SectionExtend(l, values) == InSection(l) /\ RcExtend(QueueOf(l), values)

\* the body ends within the lease: __exit__
SectionExit(l) == InSection(l) /\ WithExit(l)

\* the values and the iterable the bodies pass to append() and extend()
SectionValues == {<<"str", "a">>, <<"int", 1>>}
SectionIterables == {<<<<"str", "a">>, <<"int", 1>>>>}

SectionNext ==
    \/ \E l \in LockInst : WithEnter(l)
    \/ \E l \in LockInst : AcquireTry(l)
    \/ \E l \in LockInst : AcquireWake(l)
    \/ \E l \in LockInst, value \in SectionValues : SectionAppend(l, value)
    \/ \E l \in LockInst, values \in SectionIterables : SectionExtend(l, values)
    \/ \E l \in LockInst : SectionExit(l)
    \/ Tick

\* both queues constructed with maxlen=None while the key was absent
ConsumedInitReady ==
    /\ mc_consumed = NoArray
    /\ rc_pc = [i \in RcInst |-> "ready"]
    /\ _deque = [i \in RcInst |-> <<>>]
    /\ _set = [i \in RcInst |-> {}]
    /\ _maxlen = [i \in RcInst |-> NoMaxlen]
    /\ rc_out = NoRcOut
    /\ last_writer = "none"

-----------------------------------------------------------------------------
(* Specifications: each primitive on its own key *)

\* every primitive as constructed, its key absent from memcache
Init == BloomInit /\ LockInit /\ ConsumedInit /\ key = KeysGiven /\ sizing = NoSizing

\* the same, with the BloomFilter key written earlier
InitShared == BloomInitExisting /\ LockInit /\ ConsumedInit /\ key = KeysGiven /\ sizing = NoSizing

\* BloomFilter instances sharing one key, from an absent key
BloomSpec == Init /\ [][BloomNext]_vars

\* BloomFilter instances sharing one key that already exists
BloomSharedSpec == InitShared /\ [][BloomNext]_vars

\* MemLock instances sharing one key
LockSpec == Init /\ [][LockNext]_vars

\* MemLock instances used as context managers on one key
LockScopeSpec == Init /\ [][LockScopeNext]_vars

\* MemLock instances waiting for one key, with fair scheduling
LockWaitSpec == Init /\ [][LockWaitNext]_vars /\ LockFairness

\* RecentlyConsumed instances sharing one key
ConsumedSpec == Init /\ [][ConsumedNext]_vars

\* BloomFilter instances constructed with any key argument, from an absent key
InitLife ==
    BloomInit /\ LockInit /\ ConsumedInit /\ key \in KeysOf({"BloomFilter"}) /\ sizing = NoSizing

\* BloomFilter instances sharing one key, from construction to destruction
BloomLifeSpec == InitLife /\ [][BloomLifeNext]_vars

\* BloomFilter instances sharing one key, their calls and membership tests
BloomQuerySpec == Init /\ [][BloomQueryNext]_vars

\* BloomFilter instances sharing one key that memcache may lose
BloomEvictSpec == Init /\ [][BloomEvictNext]_vars

\* the BloomFilter key written earlier by an instance of some configuration
InitForeign ==
    BloomInitForeign /\ LockInit /\ ConsumedInit /\ key = KeysGiven /\ sizing = NoSizing

\* BloomFilter instances on a key that instances of other configurations use
BloomForeignSpec == InitForeign /\ [][BloomForeignNext]_vars

\* constructed BloomFilter instances on an existing key, one call each
BloomDuelSpec == InitShared /\ [][BloomDuelNext]_vars

\* BloomFilter instances on an existing key, updated from iterables and iterators
BloomIterSpec == InitShared /\ [][BloomIterNext]_vars

\* MemLock instances constructed with any key argument
InitLockLife ==
    BloomInit /\ LockInit /\ ConsumedInit /\ key \in KeysOf({"MemLock"}) /\ sizing = NoSizing

\* MemLock instances sharing one key, from construction to destruction
LockLifeSpec == InitLockLife /\ [][LockLifeNext]_vars

\* MemLock and RecentlyConsumed instances constructed with any key argument
InitTeardown ==
    /\ BloomInit /\ LockInit /\ ConsumedInit
    /\ key \in KeysOf({"MemLock", "RecentlyConsumed"}) /\ sizing = NoSizing

\* locks and queues that are used and then destroyed: the calls that put a
\* value under the key, and destruction
TeardownNext ==
    \/ \E i \in LockInst : AcquireNonBlocking(i)
    \/ \E i \in LockInst : MemLockDel(i)
    \/ \E i \in RcInst : RcConstruct(i, NoMaxlen)
    \/ \E i \in RcInst : RcAppend(i, <<"str", "a">>)
    \/ \E i \in RcInst : RcDel(i)

\* MemLock and RecentlyConsumed instances from construction to destruction
TeardownSpec == InitTeardown /\ [][TeardownNext]_vars

\* two processes, each with a MemLock and a constructed RecentlyConsumed
InitSection ==
    BloomInit /\ LockInit /\ ConsumedInitReady /\ key = KeysGiven /\ sizing = NoSizing

\* RecentlyConsumed instances sharing one key, called only under the lock
SectionSpec == InitSection /\ [][SectionNext]_vars

\* one BloomFilter of any configuration
InitSizing ==
    BloomInit /\ LockInit /\ ConsumedInit /\ key = KeysGiven /\ SizingInit

\* size() and num_hashes() of one BloomFilter
SizingSpec == InitSizing /\ [][SizingNext]_vars

-----------------------------------------------------------------------------
(* BloomFilter: properties *)

\* the offsets of the 1 bits stored under the key
StoredOnes == OnesOf(frombytes(mc_bloom.value))

\* no public call is in progress on any instance
AllReturned == \A i \in BloomInst : pc[i] \in {"new", "idle"}

\* C1: with instances sharing an existing key and no clear, once every call has
\* returned the stored array is exactly the bits stored at the start united with
\* the offsets of every update that returned: no bit of an update is lost.
C1_UnionOfUpdates ==
    (~cleared /\ AllReturned) =>
        StoredOnes = OffsetsOf(seeded \cup UNION {added[i] : i \in BloomInst})

\* C1 witness: A.update({"rajiv"}) and B.update({"raj", "dan"}) have both returned,
\* A lost one cas race and its second cas replaced an array holding B's bits.
C1_Witness ==
    /\ AllReturned /\ ~cleared /\ seeded = {}
    /\ call["A"].op = "update" /\ call["A"].arg = {"rajiv"} /\ outcome["A"] = "ok"
    /\ call["B"].op = "update" /\ call["B"].arg = {"raj", "dan"} /\ outcome["B"] = "ok"
    /\ attempts["A"] = [issued |-> 2, failed |-> 1]
    /\ pre_cas["A"] = tobytes(SetBits(ZeroBits, OffsetsOf({"raj", "dan"})))
    /\ pre_cas["B"] = tobytes(ZeroBits)

WritesMergedView(i) ==
    (pc[i] = "store" /\ _cas[i] # NoCas /\ CasMatches(mc_bloom, _cas[i])) =>
        _bit_array[i] = Mutate(call[i], frombytes(mc_bloom.value))

\* when update returned on instance i, its array holds what its cas replaced and its own bits
ReturnedViewMerged(i) ==
    (pc[i] = "idle" /\ outcome[i] = "ok" /\ call[i].op = "update") =>
        (OnesOf(frombytes(pre_cas[i])) \cup OffsetsOf(call[i].arg)) \subseteq OnesOf(_bit_array[i])

\* C6 as stated: a stale instance merges before it writes, and when its update
\* returns its local array holds every bit stored before its cas and its own bits
\* (whatever else runs concurrently).
C6_Original ==
    \A i \in BloomInst : WritesMergedView(i) /\ ReturnedViewMerged(i)

\* C6 amended: the same, when only add and update calls (and constructions on the
\* existing key) run concurrently: nobody calls clear.
C6_StaleViewMerges ==
    \A i \in BloomInst : WritesMergedView(i) /\ (~cleared => ReturnedViewMerged(i))

\* C6 witness: B's view was stale (its first cas failed), it reloaded, merged A's
\* bits and returned.
C6_Witness ==
    /\ ~cleared /\ pc["B"] = "idle" /\ outcome["B"] = "ok"
    /\ call["B"].op = "update" /\ call["B"].arg = {"raj", "dan"}
    /\ attempts["B"] = [issued |-> 2, failed |-> 1]
    /\ OnesOf(frombytes(pre_cas["B"])) = OffsetsOf({"rajiv"})
    /\ OnesOf(_bit_array["B"]) = OffsetsOf({"rajiv", "raj", "dan"})

\* C7: a call issues at most 3 cas commands, raises CheckAndSetError exactly when
\* 3 of them failed, returns after the first one that succeeds, and every retry
\* is the mutation replayed on the reloaded array.
C7_BoundedRetry ==
    \A i \in BloomInst :
        /\ attempts[i].issued <= 3
        /\ attempts[i].failed <= attempts[i].issued
        /\ attempts[i].issued <= attempts[i].failed + 1
        /\ (outcome[i] = "CheckAndSetError") <=> (attempts[i].failed = 3)
        /\ (outcome[i] = "ok") => (attempts[i].issued = attempts[i].failed + 1)
        /\ (pc[i] = "store" /\ _cas[i] # NoCas) =>
               /\ attempts[i].issued = call[i].try_num
               /\ attempts[i].failed = call[i].try_num
               /\ call[i].try_num > 0 => WritesMergedView(i)

\* C7 witness: an update lost three cas races and raised.
C7_Witness ==
    \E i \in BloomInst :
        /\ call[i].op = "update" /\ outcome[i] = "CheckAndSetError"
        /\ attempts[i] = [issued |-> 3, failed |-> 3]

\* C8: after a call returned on an instance, and until another instance changes
\* the stored value, the stored bytes are the bytes of the instance's array; two
\* such instances (one constructed after the other's call) have equal arrays.
C8_StoreEqualsLocal ==
    \A i \in BloomInst :
        synced[i] =>
            /\ mc_bloom.present
            /\ mc_bloom.value = tobytes(_bit_array[i])
            /\ \A j \in BloomInst : synced[j] => _bit_array[j] = _bit_array[i]

\* C8 witness: A's update returned, then B was constructed on the key and sees A's bits.
C8_Witness ==
    /\ synced["A"] /\ synced["B"]
    /\ call["A"].op = "update" /\ call["A"].arg = {"raj", "dan"}
    /\ call["B"].op = "init" /\ call["B"].arg = {} /\ outcome["B"] = "ok"
    /\ OnesOf(_bit_array["B"]) = OffsetsOf({"raj", "dan"})

-----------------------------------------------------------------------------
(* MemLock: properties *)

\* instance a acquired, has not called release since, and its lease is running
HoldsLease(a) == lease_end[a] # 0 /\ now < lease_end[a]

\* C2: while instance A's acquire has returned true, A has not called release
\* since and A's lease has not expired, a non-blocking acquire by any other
\* instance B returns false.
C2_MutualExclusion ==
    [][\A a, b \in LockInst :
          (a # b /\ HoldsLease(a) /\ AcquireNonBlocking(b)) => lock_out'.res = "False"]_vars

\* C9: release() on a key without a value raises ReleaseUnlockedLock and leaves
\* the store as it was; release() on a key with a value deletes the value and
\* returns without error.
C9_ReleaseRaisesIffAbsent ==
    [][\A i \in LockInst :
          Release(i) =>
              /\ lock_out'.op = "release"
              /\ IF LockPresent
                 THEN ~mc_lock'.held /\ lock_out'.res = "None"
                 ELSE mc_lock' = mc_lock /\ lock_out'.res = "ReleaseUnlockedLock"]_vars

\* C9: both cases happened: a release deleted a value, and later a release of an
\* instance whose lease had run out found no value and raised
C9_Witness ==
    /\ lock_out.op = "release"
    /\ lock_out.res = "ReleaseUnlockedLock"
    /\ lock_out.stale
    /\ mc_lock.held
    /\ ~LockPresent

\* C10: release() does not compare tokens: called by an instance while the key
\* holds another instance's token, it deletes that token and returns without
\* error.
C10_ReleaseIgnoresToken ==
    [][\A a \in LockInst :
          (Release(a) /\ LockPresent /\ mc_lock.value # _value(a)) =>
              (~mc_lock'.held /\ lock_out'.res = "None" /\ lock_out'.removed = mc_lock.value)]_vars

\* C10: A acquired, A's lease ran out, B acquired, and A's release() returned
\* without error having removed B's token while B's lease was running
C10_Witness ==
    \E a, b \in LockInst :
        /\ a # b
        /\ lock_out.by = a
        /\ lock_out.op = "release"
        /\ lock_out.res = "None"
        /\ lock_out.stale
        /\ lock_out.removed = _value(b)
        /\ HoldsLease(b)
        /\ ~mc_lock.held

\* the token instance a stored with its last acquire is still under the key:
\* nobody has released or acquired since (the token may have expired)
TokenStays(a) == lease_end[a] # 0 /\ mc_lock.held /\ mc_lock.value = _value(a)

Returns(i, res) ==
    /\ lock_pc[i] = "acquire"
    /\ lock_pc'[i] = "idle"
    /\ lock_out'.by = i /\ lock_out'.op = "acquire" /\ lock_out'.res = res

\* a turn of the blocking acquire of instance i issues no add: the key keeps its
\* value and the instance does not go to sleep
NoAdd(i) == mc_lock' = mc_lock /\ lock_pc'[i] # "sleep" /\ lease_end' = lease_end

\* what a turn of acquire(blocking=True, timeout=T), T >= 0, does when the time
\* limit (in half milliseconds since the call began) is not reached: one add,
\* true at once if it stored; and once it is reached: false without an add
TimesOutAt(i, limit) ==
    LET waited == now - lock_call[i]._started IN
    /\ Returns(i, "False") => waited >= limit
    /\ waited >= limit => Returns(i, "False") /\ NoAdd(i)
    /\ (waited < limit /\ ~LockPresent) => Returns(i, "True") /\ mc_lock'.value = _value(i)
    /\ (waited < limit /\ LockPresent) => lock_pc'[i] = "sleep" /\ mc_lock' = mc_lock

\* C15 as stated: acquire(blocking=True, timeout=T), T >= 0, returns true as soon
\* as an add succeeds, returns false only when the time elapsed since the call
\* began is at least T, and issues no add once it is at least T.
C15_Original ==
    [][\A i \in LockInst :
          (AcquireTry(i) /\ lock_call[i].timeout >= 0) =>
              TimesOutAt(i, lock_call[i].timeout * HalfMs)]_vars

\* C15 amended: the same with the elapsed time rounded to the nearest
\* millisecond: the call returns false, and issues no further add, from half a
\* millisecond before T on.
C15_TimeoutToNearestMs ==
    [][\A i \in LockInst :
          (AcquireTry(i) /\ lock_call[i].timeout >= 0) =>
              TimesOutAt(i, lock_call[i].timeout * HalfMs - 1)]_vars

\* C15: acquire(timeout=1) returned false 999.5 ms after it began
C15_Witness ==
    /\ lock_out.op = "acquire" /\ lock_out.res = "False"
    /\ lock_out.timeout = 1
    /\ lock_out.waited = HalfMs - 1

\* instance i is inside acquire(blocking=True, timeout=-1)
Waits(i) == lock_pc[i] \in {"acquire", "sleep"} /\ lock_call[i].timeout = -1

\* the key holds a token whose lease ends after the last instant of the clock
LeaseOutlastsClock == mc_lock.held /\ mc_lock.expires > MaxTime * HalfMs

\* C16: acquire(blocking=True, timeout=-1) never returns false and returns true
\* only when the key has no unexpired value (also when the earlier token is the
\* caller's own); and a call that waits returns, unless another instance
\* acquires the key (or the lease on the key outlasts the clock).
C16_BlocksUntilAcquired ==
    /\ [][\A i \in LockInst :
             (AcquireTry(i) /\ lock_call[i].timeout = -1) =>
                 /\ ~Returns(i, "False")
                 /\ Returns(i, "True") <=> ~LockPresent]_vars
    /\ \A i \in LockInst :
           <>[]Waits(i) =>
               \/ []<><<\E j \in LockInst \ {i} : AcquireNonBlocking(j) \/ AcquireTry(j)>>_mc_lock
               \/ <>[]LeaseOutlastsClock

\* C16: A holds the key and calls acquire() again: the call returned true when
\* A's earlier lease had run out, a whole lease after it began
C16_Witness ==
    /\ lock_out.by = "A" /\ lock_out.op = "acquire" /\ lock_out.res = "True"
    /\ lock_out.timeout = -1
    /\ lock_out.waited = _AUTO_RELEASE_TIME * HalfMs
    /\ mc_lock.value = _value("A")
    /\ lock_pc["B"] = "idle" /\ lease_end["B"] = 0

\* C17: acquire(blocking=False) ends at once with the result of one add: false,
\* with the stored token and its expiry time unchanged, while the key has a
\* value (whoever holds it, the caller included), and true otherwise.
C17_NonBlockingOneAdd ==
    [][\A i \in LockInst :
          AcquireNonBlocking(i) =>
              /\ lock_pc' = lock_pc /\ lock_call' = lock_call /\ now' = now
              /\ lock_out'.by = i /\ lock_out'.op = "acquire"
              /\ IF mc_lock.held /\ now < mc_lock.expires
                 THEN lock_out'.res = "False" /\ mc_lock' = mc_lock /\ lease_end' = lease_end
                 ELSE /\ lock_out'.res = "True"
                      /\ mc_lock' = [held |-> TRUE, value |-> _value(i),
                                     expires |-> now + _AUTO_RELEASE_TIME * HalfMs]]_vars

\* C17: A holds the key and its own acquire(blocking=False) returned false
C17_Witness ==
    /\ lock_out.by = "A" /\ lock_out.op = "acquire" /\ lock_out.res = "False"
    /\ lock_out.timeout = -1
    /\ mc_lock.value = _value("A")
    /\ HoldsLease("A") /\ mc_lock.expires = lease_end["A"]

\* C18: acquire(blocking=False, timeout=T), T # -1, raises ValueError and issues
\* no store operation: the key's value and expiry time stay as they are.
C18_NonBlockingTimeoutRejected ==
    [][\A i \in LockInst, t \in Timeouts :
          AcquireNonBlockingTimeout(i, t) =>
              /\ t # -1
              /\ lock_out'.by = i /\ lock_out'.op = "acquire" /\ lock_out'.res = "ValueError"
              /\ mc_lock' = mc_lock
              /\ lock_pc' = lock_pc /\ lease_end' = lease_end]_vars

\* C18: the call of the instance that holds the key was rejected, and its token
\* is still stored with its expiry time
C18_Witness ==
    \E i \in LockInst :
        /\ lock_out.by = i /\ lock_out.op = "acquire" /\ lock_out.res = "ValueError"
        /\ mc_lock.value = _value(i)
        /\ HoldsLease(i) /\ mc_lock.expires = lease_end[i]

\* inside the with statement of instance i the lease taken on entry has run out,
\* or the instance has released the lock (and perhaps acquired it again)
LostInScope(i) ==
    \/ with_scope[i].lease_end <= now
    \/ lease_end[i] # with_scope[i].lease_end

\* C19 as stated: leaving the with statement calls release(): a value under the
\* key is deleted and locked() is false afterwards; and if the lease ran out or
\* the lock was released inside the scope, ReleaseUnlockedLock is raised.
C19_Original ==
    [][\A i \in LockInst :
          WithExit(i) =>
              /\ LockPresent => (~LockPresent' /\ lock_out'.res = "None")
              /\ LostInScope(i) => lock_out'.res = "ReleaseUnlockedLock"]_vars

\* C19 amended: leaving the with statement calls release(): a value under the
\* key, whoever stored it, is deleted without error and locked() is false
\* afterwards; ReleaseUnlockedLock is raised exactly when the key has no value,
\* which takes that the lease ran out or the lock was released inside the scope.
C19_ExitReleases ==
    [][\A i \in LockInst :
          WithExit(i) =>
              /\ lock_out'.by = i /\ lock_out'.op = "exit"
              /\ with_scope'[i].at = "out"
              /\ ~LockPresent'
              /\ IF mc_lock.held /\ now < mc_lock.expires
                 THEN lock_out'.res = "None" /\ ~mc_lock'.held
                 ELSE /\ lock_out'.res = "ReleaseUnlockedLock"
                      /\ mc_lock' = mc_lock
                      /\ \/ with_scope[i].lease_end <= now
                         \/ mc_lock.expires # with_scope[i].lease_end]_vars

\* C19: the lease ran out inside the with statement, nobody acquired the key,
\* and leaving it raised ReleaseUnlockedLock
C19_Witness ==
    /\ lock_out.op = "exit" /\ lock_out.res = "ReleaseUnlockedLock"
    /\ lock_out.stale
    /\ mc_lock.held /\ mc_lock.value = _value(lock_out.by)

-----------------------------------------------------------------------------
(* RecentlyConsumed: properties *)

\* C4: after any sequence of append, extend and clear calls, the ordered
\* sequence of an instance holds no value more than once.
C4_NoDuplicates ==
    \A i \in RcInst :
        \A j, k \in 1..Len(_deque[i]) : j # k => _deque[i][j] # _deque[i][k]

\* C5: after every append, extend or clear of an instance with maxlen L, its
\* ordered sequence has at most L elements, and so has the JSON array it stored.
C5_WithinMaxlen ==
    \A i \in RcInst :
        (/\ rc_pc[i] = "ready"
         /\ _maxlen[i] # NoMaxlen
         /\ rc_out.by = i
         /\ rc_out.op \in {"append", "extend", "clear"}
         /\ rc_out.res = "None") =>
            /\ Len(_deque[i]) <= _maxlen[i]
            /\ last_writer = i => Len(json_loads(MemcacheGetArray)) <= _maxlen[i]

\* the values of a sequence that are not in seen, each at its first occurrence
RECURSIVE FirstAccepted(_, _)
FirstAccepted(values, seen) ==
    IF values = <<>>
    THEN <<>>
    ELSE IF unicode(Head(values)) \in seen
    THEN FirstAccepted(Tail(values), seen)
    ELSE <<unicode(Head(values))>>
             \o FirstAccepted(Tail(values), seen \cup {unicode(Head(values))})

\* the last min(maxlen, Len(accepted)) values of a sequence of accepted values
LastAccepted(accepted, maxlen) ==
    IF maxlen = NoMaxlen \/ Len(accepted) <= maxlen
    THEN accepted
    ELSE SubSeq(accepted, Len(accepted) - maxlen + 1, Len(accepted))

\* C12: every append and extend leaves the queue equal to the last
\* min(L, number accepted) accepted values in the order of their first
\* acceptance: the values it held, then the values of the call that were not in
\* it (each once), less the oldest ones beyond maxlen L.
C12_AcceptanceOrder ==
    [][\A i \in RcInst :
          /\ \A value \in RcValues :
                 RcAppend(i, value) =>
                     _deque'[i] = LastAccepted(
                         _deque[i] \o FirstAccepted(<<value>>, SetOf(_deque[i])), _maxlen[i])
          /\ \A values \in RcIterables :
                 RcExtend(i, values) =>
                     _deque'[i] = LastAccepted(
                         _deque[i] \o FirstAccepted(values, SetOf(_deque[i])), _maxlen[i])]_vars

\* instance i is the only RecentlyConsumed constructed on the key
OnlyInstance(i) == rc_pc[i] = "ready" /\ \A j \in RcInst \ {i} : rc_pc[j] = "new"

\* C13: with a single instance on the key, after every append, extend or clear
\* the store holds the JSON array of the instance's sequence, or no value exactly
\* when the sequence is empty, so that a construction with the same maxlen
\* succeeds and loads the same sequence.
C13_StoreIsSequence ==
    \A i \in RcInst :
        (/\ OnlyInstance(i)
         /\ rc_out.by = i
         /\ rc_out.op \in {"append", "extend", "clear"}
         /\ rc_out.res = "None") =>
            /\ mc_consumed.present <=> _deque[i] # <<>>
            /\ mc_consumed.present => mc_consumed.value = json_dumps(_deque[i])
            /\ json_loads(MemcacheGetArray) = _deque[i]
            /\ _maxlen[i] # NoMaxlen => Len(json_loads(MemcacheGetArray)) <= _maxlen[i]

\* the array stored under the key, as a list; the empty list when the key is absent
Persisted == IF mc_consumed.present THEN json_loads(mc_consumed.value) ELSE <<>>

\* C14: a construction with maxlen L on a key whose stored array has more than L
\* elements raises IndexError, and every other construction (at most L elements,
\* maxlen None, or key absent) succeeds with the stored sequence; neither changes
\* the stored value.
C14_OverflowOnLoad ==
    [][\A i \in RcInst, maxlen \in Maxlens :
          RcConstruct(i, maxlen) =>
              /\ mc_consumed' = mc_consumed
              /\ rc_out'.by = i /\ rc_out'.op = "init"
              /\ IF maxlen # NoMaxlen /\ Len(Persisted) > maxlen
                 THEN rc_out'.res = "IndexError" /\ rc_pc'[i] = "new"
                 ELSE /\ rc_out'.res = "None"
                      /\ rc_pc'[i] = "ready"
                      /\ _deque'[i] = Persisted
                      /\ _set'[i] = SetOf(Persisted)]_vars

\* C14: a construction raised IndexError on a stored array of two distinct
\* values, which is still stored
C14_Witness ==
    \E i \in RcInst :
        /\ rc_out = [by |-> i, op |-> "init", res |-> "IndexError"]
        /\ rc_pc[i] = "new"
        /\ Persisted = <<"a", "1">>

\* the call of instance i changes neither its sequence nor its membership set,
\* and issues no set and no delete
NothingConsumed(i) ==
    /\ _deque'[i] = _deque[i]
    /\ _set'[i] = _set[i]
    /\ mc_consumed' = mc_consumed
    /\ last_writer' = last_writer

\* C20: append(v) of a member v, and extend(vs) of members only, change neither
\* the sequence (the member keeps its place) nor the store.
C20_MemberIsNoOp ==
    [][\A i \in RcInst :
          /\ \A value \in RcValues :
                 (RcAppend(i, value) /\ unicode(value) \in _set[i]) => NothingConsumed(i)
          /\ \A values \in RcIterables :
                 (/\ RcExtend(i, values)
                  /\ \A k \in 1..Len(values) : unicode(values[k]) \in _set[i]) =>
                     NothingConsumed(i)]_vars

\* C20: q1 holds "a" then "1", q2 wrote the key last, and an append of q1 that
\* returned wrote nothing: "a" is still first
C20_Witness ==
    /\ rc_out = [by |-> "q1", op |-> "append", res |-> "None"]
    /\ last_writer = "q2"
    /\ _deque["q1"] = <<"a", "1">>
    /\ _set["q1"] = {"a", "1"}
    /\ _maxlen["q1"] = 2

-----------------------------------------------------------------------------
(* BloomFilter: properties of clear, membership tests, insertion and destruction *)

\* the value stored now is the one the cas of instance i's call wrote: nobody
\* wrote since
OwnWrite(i) == mc_bloom.present /\ mc_bloom.cas = _cas[i] + 1

\* C21: when clear() returns on an instance, and no other writer came between
\* its cas and the gets that follows it, the instance's array is size() zero
\* bits and the stored bytes are size() / 8 zero bytes, no value is in the
\* instance and its len() is 0, whatever the array held before.
C21_ClearEmpties ==
    [][\A i \in BloomInst :
          (pc[i] = "load" /\ pc'[i] = "idle" /\ call[i].op = "clear" /\ OwnWrite(i)) =>
              /\ _bit_array'[i] = [o \in 1..size |-> 0]
              /\ mc_bloom'.value = [j \in 1..(size \div 8) |-> 0]
              /\ \A value \in Values : ~Contains(i, value)'
              /\ __len__(i)' = 0]_vars

\* C21 witness: A.clear() returned, its cas replaced an array that held "raj" and
\* "dan", and both A's array and the stored bytes are zeros.
C21_Witness ==
    /\ pc["A"] = "idle" /\ call["A"].op = "clear" /\ outcome["A"] = "ok"
    /\ OnesOf(frombytes(pre_cas["A"])) = OffsetsOf({"raj", "dan"})
    /\ OnesOf(_bit_array["A"]) = {} /\ StoredOnes = {}
    /\ mc_bloom.cas = _cas["A"]
    /\ ~Contains("A", "raj") /\ __len__("A") = 0

\* a membership test is made in this step (a call that starts and ends in it),
\* and it is the last call of instance i
TestsMembership(i) ==
    pc[i] = "idle" /\ ncalls' = ncalls + 1 /\ pc' = pc /\ call'[i].op = "__contains__"

\* C22: a membership test of an instance issues no memcache command and leaves
\* the instance's array and cas token as they are; its answer is read off the
\* local array alone; and the array and token of an instance that is between
\* calls do not change, whatever other instances commit, until it starts its
\* own next add, update or clear.
C22_MembershipReadsLocal ==
    [][\A i \in BloomInst :
          /\ TestsMembership(i) =>
                /\ mc_bloom' = mc_bloom /\ pc'[i] = "idle"
                /\ _bit_array' = _bit_array /\ _cas' = _cas
                /\ \E value \in Values :
                      /\ call'[i].arg = {value}
                      /\ outcome'[i] = "True" <=>
                             \A o \in _bit_offsets(value) : _bit_array[i][o + 1] = 1
          /\ (pc[i] = "idle" /\ pc'[i] = "idle") =>
                (_bit_array'[i] = _bit_array[i] /\ _cas'[i] = _cas[i])]_vars

\* C22 witness: B's update({"raj", "dan"}) is committed and stored, and A, idle
\* since before, answers that "raj" is not in it.
C22_Witness ==
    /\ pc["A"] = "idle" /\ call["A"].op = "__contains__" /\ call["A"].arg = {"raj"}
    /\ outcome["A"] = "False"
    /\ pc["B"] = "idle" /\ outcome["B"] = "ok" /\ added["B"] = {"raj", "dan"}
    /\ _bit_offsets("raj") \subseteq StoredOnes
    /\ _cas["A"] # mc_bloom.cas

\* instance i is the only one that has been constructed or called
Solo(i) == \A j \in BloomInst \ {i} : pc[j] = "new" /\ call[j] = NoCall

\* C23: on a single instance (and before any clear) the array after every call
\* is a function of the set of the values inserted so far, locally and in the
\* store: the order of the calls, the repetition of a value and the grouping
\* of the iterables of one update make no difference; and an add or update
\* whose bits were all set already (an empty update among them) leaves the
\* stored bytes as they were.
C23_InsertionIdempotentAnyOrder ==
    \A i \in BloomInst :
        (Solo(i) /\ pc[i] = "idle" /\ ~cleared) =>
            /\ _bit_array[i] = [o \in 1..size |-> IF (o - 1) \in OffsetsOf(added[i]) THEN 1 ELSE 0]
            /\ frombytes(mc_bloom.value) = _bit_array[i]
            /\ (/\ call[i].op = "update" /\ outcome[i] = "ok"
                /\ OffsetsOf(call[i].arg) \subseteq OnesOf(frombytes(pre_cas[i]))) =>
                   mc_bloom.value = pre_cas[i]

\* C23 witness: A alone, after update({"rajiv"}, {"raj", "dan"}) took two
\* iterables, add("rajiv") found its bits set and left the stored bytes as they
\* were.
C23_Witness ==
    /\ Solo("A") /\ pc["A"] = "idle" /\ ~cleared /\ ncalls = 3
    /\ call["A"].op = "update" /\ call["A"].arg = {"rajiv"} /\ outcome["A"] = "ok"
    /\ added["A"] = {"rajiv", "raj", "dan"}
    /\ pre_cas["A"] = mc_bloom.value
    /\ OnesOf(_bit_array["A"]) = OffsetsOf({"rajiv", "raj", "dan"})

\* C24: when the destruction of an instance ends, and the key of the filter was
\* generated by _random_key() (it begins with 'bloom:'), memcache has no value
\* under the key.
C24_GeneratedKeyRemoved ==
    [][\A i \in BloomInst :
          (/\ key["BloomFilter"].arg = NoKey /\ KeyLooksRandom("BloomFilter")
           /\ pc[i] # "gone" /\ pc'[i] = "gone") => ~mc_bloom'.present]_vars

\* the update() or clear() of instance i raises CheckAndSetError in this step
Raises(i) ==
    /\ pc[i] = "store" /\ call[i].op \in {"update", "clear"}
    /\ outcome[i] # "CheckAndSetError" /\ outcome'[i] = "CheckAndSetError"

\* C26: when update() or clear() raises CheckAndSetError, none of the cas
\* commands of the call stored anything, and (nobody having cleared the
\* filter) the instance contains no value of the call that is not in the
\* stored array.
C26_FailedCallNoEffect ==
    [][\A i \in BloomInst :
          Raises(i) =>
              /\ mc_bloom' = mc_bloom
              /\ attempts'[i].failed = attempts'[i].issued
              /\ ~cleared =>
                     \A value \in call[i].arg :
                         Contains(i, value)' => _bit_offsets(value) \subseteq StoredOnes']_vars

-----------------------------------------------------------------------------
(* Destruction of MemLock and RecentlyConsumed instances *)

\* a MemLock, or a RecentlyConsumed, is destroyed in this step
LockDestroyed(i) == lock_pc[i] # "gone" /\ lock_pc'[i] = "gone"
QueueDestroyed(i) == rc_pc[i] # "gone" /\ rc_pc'[i] = "gone"

\* C25 as stated: destroying an instance that was constructed with a key of the
\* caller's leaves the value under the key as it is, whatever the text of the
\* key.
C25_Original ==
    [][/\ \A i \in LockInst :
             (LockDestroyed(i) /\ key["MemLock"].arg # NoKey) => mc_lock' = mc_lock
       /\ \A i \in RcInst :
             (QueueDestroyed(i) /\ key["RecentlyConsumed"].arg # NoKey) =>
                 mc_consumed' = mc_consumed]_vars

\* C25 amended: destroying an instance whose key does not begin with the prefix
\* of its class leaves the value under the key as it is; destroying one whose
\* key begins with the prefix leaves no value under the key, whether the
\* instance generated the key or the caller supplied it.
C25_PrefixDecidesDeletion ==
    [][/\ \A i \in LockInst :
             LockDestroyed(i) =>
                 IF startswith(key["MemLock"].key, "tmp:memlock:")
                 THEN ~LockPresent'
                 ELSE mc_lock' = mc_lock
       /\ \A i \in RcInst :
             QueueDestroyed(i) =>
                 IF startswith(key["RecentlyConsumed"].key, "tmp:consumed:")
                 THEN ~mc_consumed'.present
                 ELSE mc_consumed' = mc_consumed]_vars

\* C25 witness: a MemLock with key 'dilberts' was destroyed while the key held
\* the other instance's token, which is still there; a RecentlyConsumed whose
\* caller passed the key 'tmp:consumed:dilberts' was destroyed, and the array
\* the other instance had stored is gone.
C25_Witness ==
    /\ key["MemLock"].arg = <<"dilberts">>
    /\ lock_out.op = "__del__" /\ lock_out.by = "A"
    /\ LockPresent /\ mc_lock.value = _value("B")
    /\ key["RecentlyConsumed"].arg = <<"tmp:consumed:", "dilberts">>
    /\ rc_out.op = "__del__" /\ rc_out.by = "q1" /\ rc_pc["q2"] = "ready"
    /\ _deque["q2"] # <<>> /\ ~mc_consumed.present

-----------------------------------------------------------------------------
(* RecentlyConsumed under a MemLock: properties *)

\* C27: with both queues constructed, every append and extend made inside a
\* with statement of the shared lock and every with statement left within its
\* lease, once no process is in a with statement the stored array holds every
\* value either instance accepted (maxlen is None, nothing is pruned).
C27_LockedAppendsKept ==
    (\A l \in LockInst : with_scope[l].at = "out" /\ lock_pc[l] = "idle") =>
        \A l \in LockInst : _set[QueueOf(l)] \subseteq SetOf(json_loads(MemcacheGetArray))

-----------------------------------------------------------------------------
(* BloomFilter sizes: properties *)

\* what size() and num_hashes() have returned, if called, for num_values = n
\* and false_positives = p
Derives(n, p, m, k) ==
    (sizing.num_values = n /\ sizing.false_positives = p) =>
        /\ sizing._size # NoAttr => sizing._size = m
        /\ sizing._num_hashes # NoAttr => sizing._num_hashes = k

\* C28: the four tested configurations give (n = 100, p = 0.1) m = 480, k = 3;
\* (100, 0.01) m = 960, k = 7; (1000, 0.1) m = 4800, k = 3; (1000, 0.01)
\* m = 9592, k = 7; and for every configuration m is a multiple of 8.
C28_TestedSizes ==
    /\ Derives(100, <<1, 10>>, 480, 3)
    /\ Derives(100, <<1, 100>>, 960, 7)
    /\ Derives(1000, <<1, 10>>, 4800, 3)
    /\ Derives(1000, <<1, 100>>, 9592, 7)
    /\ sizing._size # NoAttr => sizing._size % 8 = 0

\* C28 witness: num_hashes() was called on BloomFilter(num_values=100,
\* false_positives=0.1), and computed both sizes.
C28_Witness ==
    sizing = [num_values |-> 100, false_positives |-> <<1, 10>>,
              _size |-> 480, _num_hashes |-> 3]

\* C29: for every num_values n >= 1, num_hashes() is the ceiling of
\* (m / n) * ln 2, m / n being the exact quotient of size() by n.
C29_HashesOfExactQuotient ==
    sizing._num_hashes # NoAttr =>
        sizing._num_hashes = CeilOfExactQuotientLog2(sizing.num_values, sizing._size)

-----------------------------------------------------------------------------
(* MemLock: the value under the key, step by step *)

\* what a get of the lock's key returns: a token, or nothing (the empty tuple)
StoredToken == IF LockPresent THEN mc_lock.value ELSE <<>>

\* the value under the key is nothing or the token of exactly one instance
OneHolderAtMost ==
    StoredToken = <<>> \/ Cardinality({i \in LockInst : _value(i) = StoredToken}) = 1

\* the key gets a value only when it had none, by an acquire of the instance
\* whose token it is, which returns true
TokenOnlyByAdd ==
    (StoredToken' # StoredToken /\ StoredToken' # <<>>) =>
        /\ StoredToken = <<>>
        /\ lock_out'.op = "acquire" /\ lock_out'.res = "True"
        /\ StoredToken' = _value(lock_out'.by)

\* a value under the key that stays there is not touched: same token, same expiry
NeverOverwritten ==
    (StoredToken # <<>> /\ StoredToken' # <<>>) => mc_lock' = mc_lock

\* the value goes away in this step by a release() that deleted it
GoesByRelease == lock_out'.op = "release" /\ lock_out'.removed = StoredToken

\* the value goes away in this step because its lease ends
GoesByExpiry == now < mc_lock.expires /\ mc_lock.expires <= now'

\* the value goes away in this step by the __del__ of an instance whose key
\* begins with 'tmp:memlock:'
GoesByDestruction ==
    /\ lock_out'.op = "__del__" /\ lock_out'.removed = StoredToken
    /\ startswith(key["MemLock"].key, "tmp:memlock:")

\* C30 as stated: the value under the key is nothing or one instance's token;
\* it becomes a token only by a successful add on an absent key, becomes absent
\* only by a release or by the end of the lease, and is never overwritten or
\* renewed.
C30_Original ==
    [][/\ OneHolderAtMost /\ TokenOnlyByAdd /\ NeverOverwritten
       /\ (StoredToken # <<>> /\ StoredToken' = <<>>) =>
              (GoesByRelease \/ GoesByExpiry)]_vars

\* C30 amended: the same, but the value also becomes absent when an instance
\* whose key begins with 'tmp:memlock:' is destroyed.
C30_LockStateMachine ==
    [][/\ OneHolderAtMost /\ TokenOnlyByAdd /\ NeverOverwritten
       /\ (StoredToken # <<>> /\ StoredToken' = <<>>) =>
              (GoesByRelease \/ GoesByExpiry \/ GoesByDestruction)]_vars

\* C30 witness: B holds the lock on a key that A generated, A is destroyed and
\* its __del__ deletes B's token before the lease ends.
C30_Witness ==
    /\ key["MemLock"].arg = NoKey
    /\ lock_out.op = "__del__" /\ lock_out.by = "A" /\ lock_out.removed = _value("B")
    /\ mc_lock = NoLock /\ lease_end["B"] > now /\ lock_pc["B"] = "idle"

-----------------------------------------------------------------------------
(* C31: loading an absent key *)

\* _load_bit_array() called by __init__ has not returned yet
Loading(i) == call[i].op = "init" /\ call[i].after = "init"

\* C31: while __init__ loads the array of an absent key it issues at most two
\* gets and one set, whatever other clients do to the key
C31_LoadSetsOnce ==
    \A i \in BloomInst : Loading(i) => cmds[i].gets <= 2 /\ cmds[i].sets <= 1
-----------------------------------------------------------------------------
(* C32: the token an instance holds after a call *)

\* instance i issues the command of its _store_bit_array()
Stores(i) == pc[i] = "store" /\ pc'[i] # "store"

\* the first try of an update() or clear() of instance i, which has not
\* reloaded in this call
FirstTry(i) ==
    call[i].op \in {"update", "clear"} /\ call[i].try_num = 0 /\ cmds[i].gets = 0

\* C32: a call that succeeds returns from a gets, and as long as nobody has
\* written the key since the last gets of an instance, the instance holds the
\* token of the stored value, the first cas of its next update() or clear()
\* stores, and it uses set only when the key is absent
C32_HoldsCurrentToken ==
    [][\A i \in BloomInst :
          /\ (pc[i] # "idle" /\ pc'[i] = "idle" /\ outcome'[i] = "ok") => fresh'[i]
          /\ (pc'[i] = "idle" /\ outcome'[i] = "ok" /\ fresh'[i]) =>
                 mc_bloom'.present /\ _cas'[i] = mc_bloom'.cas
          /\ (Stores(i) /\ FirstTry(i) /\ fresh[i]) =>
                 /\ _cas[i] # NoCas
                 /\ mc_bloom' = Written(mc_bloom, tobytes(_bit_array[i]))
                 /\ attempts'[i] = [issued |-> 1, failed |-> 0]
          /\ (Stores(i) /\ _cas[i] = NoCas /\ fresh[i]) => ~mc_bloom.present]_vars

\* A's update() stored with its first cas although B has written the key
\* before, and A holds the token of what is stored now
C32_Witness ==
    /\ pc["A"] = "idle" /\ outcome["A"] = "ok" /\ fresh["A"]
    /\ call["A"].op = "update" /\ call["A"].arg # {}
    /\ attempts["A"] = [issued |-> 1, failed |-> 0]
    /\ call["B"].op = "clear" /\ outcome["B"] = "ok"
    /\ _cas["A"] = mc_bloom.cas
-----------------------------------------------------------------------------
(* C33: the length of the local array *)

\* C33: the local array of an instance has size() bits, and the offsets of every
\* value are indexes of it
C33_ArrayHasSizeBits ==
    \A i \in BloomInst :
        _bit_array[i] # <<>> =>
            /\ Len(_bit_array[i]) = size
            /\ \A value \in Values : OutOfRange(_bit_array[i], _bit_offsets(value)) = {}
-----------------------------------------------------------------------------
(* C34: the sequence and the membership set of a RecentlyConsumed *)

\* C34: the values of the sequence of an instance are the values of its
\* membership set, and there are as many of the one as of the other, so that
\* len() is the length of the sequence
C34_SequenceAndSetInSync ==
    \A i \in RcInst :
        rc_pc[i] = "ready" =>
            /\ SetOf(_deque[i]) = _set[i]
            /\ Len(_deque[i]) = len(_set[i])
-----------------------------------------------------------------------------
(* C39: pruning *)

\* C39: no append() or extend() raises: _prune_to_maxlen pops only values that
\* are in the membership set, from a sequence that is not empty
C39_PruneNeverRaises ==
    rc_out.op \in {"append", "extend"} => rc_out.res = "None"
-----------------------------------------------------------------------------
(* C35, C37: two constructed instances, one call each *)

\* instance a called clear(), instance b called update(), and both returned
ClearAndUpdate(a, b) ==
    /\ call[a].op = "clear" /\ pc[a] = "idle" /\ outcome[a] = "ok"
    /\ call[b].op = "update" /\ pc[b] = "idle" /\ outcome[b] = "ok"

\* C35: when a clear() and an update(S) of two constructed instances have both
\* returned, the stored array is all zero or has exactly the bits of S: no bit
\* stored before the clear() is left
C35_ClearAndUpdateSerialize ==
    \A a, b \in BloomInst :
        ClearAndUpdate(a, b) =>
            \/ StoredOnes = {}
            \/ StoredOnes = OffsetsOf(call[b].arg)

\* B's update() lost a cas race, was replayed after A's clear() and stored the
\* bits of its argument alone: the bits of 'dan' stored at the start are gone
C35_Witness ==
    /\ ClearAndUpdate("A", "B")
    /\ seeded = {"dan"} /\ "dan" \notin call["B"].arg
    /\ attempts["B"].failed >= 1
    /\ StoredOnes = OffsetsOf(call["B"].arg) /\ StoredOnes # {}

\* C37: with two constructed instances that call update() once each, no call
\* raises CheckAndSetError and no call has more than two cas commands that fail
C37_ThreeTriesSuffice ==
    (AllConstructed /\ ~cleared) =>
        \A i \in BloomInst :
            /\ outcome[i] # "CheckAndSetError"
            /\ attempts[i].failed <= 2

\* A's update() returned after two cas commands that failed: one because B's
\* construction had replaced the value A loaded, one because of B's update()
C37_Witness ==
    /\ AllConstructed /\ ~cleared
    /\ call["A"].op = "update" /\ outcome["A"] = "ok"
    /\ attempts["A"] = [issued |-> 3, failed |-> 2]
    /\ call["B"].op = "update" /\ outcome["B"] = "ok"
-----------------------------------------------------------------------------
(* C36: the stored bits under constructions and insertions *)

\* C36: as long as no clear() has been called, every write of the key stores
\* at least the bits of the value it replaces
C36_StoredBitsNeverShrink ==
    [][(mc_bloom.present /\ mc_bloom' # mc_bloom /\ ~cleared') =>
           StoredOnes \subseteq StoredOnes']_vars
-----------------------------------------------------------------------------
(* C38: a blocking acquire of a free lock *)

\* instance i leaves the loop of acquire(blocking=True, timeout=T), T >= 0, in
\* the instant the call began, the key being absent
FirstTestOnFreeKey(i) ==
    /\ lock_pc[i] = "acquire" /\ lock_pc'[i] = "idle"
    /\ lock_call[i].timeout >= 0
    /\ now = lock_call[i]._started
    /\ ~LockPresent

\* C38: a blocking acquire with a timeout T >= 0 that finds the key absent
\* returns True: it adds the key before it can time out
C38_FreeLockAcquired ==
    [][\A i \in LockInst :
          FirstTestOnFreeKey(i) => lock_out'.by = i /\ lock_out'.res = "True"]_vars
-----------------------------------------------------------------------------
(* C40: update() from an iterator *)

\* C40: when an update() has returned on an instance, the instance contains
\* every value its argument produced and the store holds their bits, whether
\* the argument was an iterable or an iterator
C40_ReturnedUpdateInserted ==
    \A i \in BloomInst :
        (/\ pc[i] = "idle" /\ outcome[i] = "ok"
         /\ call[i].op \in {"update", "update(iterator)"}) =>
            \A value \in call[i].arg :
                Contains(i, value) /\ _bit_offsets(value) \subseteq StoredOnes
====
